---------------------------- MODULE Spec2Model ----------------------------
(***************************************************************************)
(* The custom template engine of prozes (src/prozes/modules/templates.py). *)
(*                                                                         *)
(* Text is a sequence of symbols.  A symbol is one character ("a", "{",    *)
(* "CR", "LF", "NUL", "BAD" for a byte that is no UTF-8) or an atom that   *)
(* stands for a fixed run of characters (".py", "True").  A dict is a      *)
(* function whose DOMAIN is its key set.  A Python value is a record       *)
(* [k, v]: its kind ("none", "str", "int", "bool") and its payload.        *)
(***************************************************************************)
EXTENDS Integers, Sequences, FiniteSets, TLC

VARIABLES
    store,      \* ~/.prozes/templates: template name -> the template's directory
    dest,       \* the destination directory: project name -> file tree
    clock,      \* what datetime.now() renders to: [date, year]
    linesep,    \* os.linesep of the platform the tool runs on
    captured,   \* history: names captured successfully and not deleted since
    arg,        \* the input of the pure function a specification exercises
    last        \* the last call: its name, its arguments and its outcome

vars == <<store, dest, clock, linesep, captured, arg, last>>

---------------------------------------------------------------------------
(* Bounds                                                                  *)

\* longest text enumerated for substitute_variables
MaxLen == 6

---------------------------------------------------------------------------
(* Text, values, dicts                                                     *)

Letters == {"a", "b", "x", "_"}
Digits  == {"1", "2"}
\* atoms that stand for a run of letters and underscores
Words   == {"project_name", "date", "year", "author", "db_host", "port"}

\* [a-zA-Z_]
IdStart == Letters \cup Words
\* [a-zA-Z0-9_]
IdChar  == Letters \cup Words \cup Digits

EmptyDict == [x \in {} |-> x]

None == [k |-> "none", v |-> <<>>]

StrVal(s)  == [k |-> "str", v |-> s]
IntVal(d)  == [k |-> "int", v |-> d]
BoolVal(b) == [k |-> "bool", v |-> IF b THEN <<"1">> ELSE <<"0">>]

\* str(value)
Str(value) ==
    CASE value.k = "str"  -> value.v
      [] value.k = "int"  -> value.v
      [] value.k = "bool" -> IF value.v = <<"1">> THEN <<"True">> ELSE <<"False">>
      [] OTHER            -> <<"None">>

\* dict.get(key, default)
Get(d, key, default) == IF key \in DOMAIN d THEN d[key] ELSE default

\* d.update(e): the entries of e win
Update(d, e) == [x \in (DOMAIN d) \cup (DOMAIN e) |-> IF x \in DOMAIN e THEN e[x] ELSE d[x]]

Ok(v)    == [ok |-> TRUE, val |-> v]
\* raise e(...): detail is what the message says, a sequence of error records
RaiseWith(e, detail) == [ok |-> FALSE, exc |-> e, detail |-> detail]
Raise(e) == RaiseWith(e, <<>>)

\* a destination directory with nothing in it
EmptyDest == [dirs |-> {}, files |-> EmptyDict]

\* datetime.now() on two days: strftime('%Y-%m-%d'), strftime('%Y'), isoformat()
Today    == [date |-> <<"1", "-", "1">>, year |-> <<"1">>, iso |-> <<"1", "-", "1", "T", "1">>]
Tomorrow == [date |-> <<"2", "-", "1">>, year |-> <<"2">>, iso |-> <<"2", "-", "1", "T", "1">>]
Clocks   == {Today, Tomorrow}

---------------------------------------------------------------------------
(* VARIABLE_PATTERN and substitute_variables                               *)

RECURSIVE IdentEnd(_, _)
\* the last position of the greedy run [a-zA-Z0-9_]* that starts at j (j - 1 when empty)
IdentEnd(s, j) ==
    IF j <= Len(s) /\ s[j] \in IdChar THEN IdentEnd(s, j + 1) ELSE j - 1

\* VARIABLE_PATTERN.match at position i: the last position of the match, 0 for none
MatchEnd(s, i) ==
    IF i + 4 <= Len(s) /\ s[i] = "{" /\ s[i + 1] = "{" /\ s[i + 2] \in IdStart
    THEN LET j == IdentEnd(s, i + 3)
         IN  IF j + 2 <= Len(s) /\ s[j + 1] = "}" /\ s[j + 2] = "}" THEN j + 2 ELSE 0
    ELSE 0

ReplaceVarDroppingUnknown(s, i, e, variables) ==
    LET var_name == SubSeq(s, i + 2, e - 2)
    IN  IF var_name \in DOMAIN variables THEN Str(variables[var_name]) ELSE <<>>

\* replace_var(match): match.group(0) is s[i..e], match.group(1) the identifier
ReplaceVar(s, i, e, variables) ==
    LET var_name == SubSeq(s, i + 2, e - 2)
    IN  Str(Get(variables, var_name, StrVal(SubSeq(s, i, e))))

RECURSIVE SubFrom(_, _, _)
\* re.sub from position i: leftmost matches, left to right, never rescanning a replacement
SubFrom(s, i, variables) ==
    IF i > Len(s) THEN <<>>
    ELSE LET e == MatchEnd(s, i)
         IN  IF e = 0
             THEN <<s[i]>> \o SubFrom(s, i + 1, variables)
             ELSE ReplaceVar(s, i, e, variables) \o SubFrom(s, e + 1, variables)

SubstituteVariables(content, variables) == SubFrom(content, 1, variables)

---------------------------------------------------------------------------
(* TemplateVariable and TemplateMetadata                                   *)

\* TEMPLATE_VERSION
TemplateVersion == <<"1", ".", "0">>

BuiltinNames == {<<"project_name">>, <<"date">>, <<"year">>}

\* dataclass TemplateVariable
TemplateVariable(name, type, description, required, default) ==
    [name |-> name, type |-> type, description |-> description,
     required |-> required, default |-> default]

\* isinstance(value, str | int | bool): bool is a subclass of int
IsInstance(value, cls) ==
    CASE cls = "str"  -> value.k = "str"
      [] cls = "int"  -> value.k \in {"int", "bool"}
      [] cls = "bool" -> value.k = "bool"
      [] OTHER        -> FALSE

\* TemplateVariable.validate_value: (is_valid, error_message)
ValidateValue(var, value) ==
    IF value = None
    THEN IF var.required
         THEN [valid |-> FALSE, error |-> [kind |-> "is required", var |-> var.name]]
         ELSE [valid |-> TRUE]
    ELSE IF var.type = "string" /\ ~IsInstance(value, "str")
         THEN [valid |-> FALSE, error |-> [kind |-> "must be a string", var |-> var.name]]
    ELSE IF var.type = "integer" /\ ~IsInstance(value, "int")
         THEN [valid |-> FALSE, error |-> [kind |-> "must be an integer", var |-> var.name]]
    ELSE IF var.type = "boolean" /\ ~IsInstance(value, "bool")
         THEN [valid |-> FALSE, error |-> [kind |-> "must be a boolean", var |-> var.name]]
    ELSE [valid |-> TRUE]

VariableToDictWithoutDefault(var) ==
    ("type" :> var.type) @@ ("description" :> var.description) @@ ("required" :> var.required)

\* TemplateVariable.to_dict: the name is not part of it
VariableToDict(var) ==
    ("type" :> var.type) @@ ("description" :> var.description)
        @@ ("required" :> var.required) @@ ("default" :> var.default)

DefaultVariableSubstitution ==
    ("enabled" :> "True") @@ ("patterns" :> "{{variable_name}}")
        @@ ("files" :> "**/*.py ...") @@ ("exclude" :> "**/*.pyc ...")

DefaultFilePatterns ==
    ("text_extensions" :> "DEFAULT_TEXT_EXTENSIONS") @@ ("exclude_dirs" :> "DEFAULT_EXCLUDE_DIRS")

\* TemplateMetadata.__post_init__: an empty created_at is stamped, empty
\* variable_substitution and file_patterns get the defaults
PostInit(m, now) ==
    [m EXCEPT
        !.created_at = IF m.created_at = <<>> THEN now.iso ELSE @,
        !.variable_substitution = IF DOMAIN m.variable_substitution = {} THEN DefaultVariableSubstitution ELSE @,
        !.file_patterns = IF DOMAIN m.file_patterns = {} THEN DefaultFilePatterns ELSE @]

\* TemplateMetadata(...): the dataclass constructor, fields is the record of its
\* arguments. variables is the dict in its insertion order, a sequence of [key, var]
TemplateMetadata(fields, now) == PostInit(fields, now)

\* TemplateMetadata.to_dict: the JSON object that save() dumps
ToDict(m) ==
    [kind |-> "object",
     fields |->
        ("version" :> m.version) @@ ("name" :> m.name) @@ ("description" :> m.description)
        @@ ("author" :> m.author) @@ ("created_at" :> m.created_at)
        @@ ("prozes_version" :> m.prozes_version)
        @@ ("variables" :>
              [kind |-> "object",
               items |-> [i \in 1..Len(m.variables) |->
                            [key |-> m.variables[i].key,
                             data |-> [kind |-> "object",
                                       fields |-> VariableToDict(m.variables[i].var)]]]])
        @@ ("dependencies" :> m.dependencies)
        @@ ("variable_substitution" :> m.variable_substitution)
        @@ ("file_patterns" :> m.file_patterns)]

\* a path of the file system: nothing there, a directory, or a file with its content
NoFile == [kind |-> "missing"]
DirInsteadOfFile == [kind |-> "dir"]

\* TemplateMetadata.save: json.dump of to_dict() into the file at path
Save(m) == [kind |-> "file", doc |-> ToDict(m)]

\* Python's exception classes: JSONDecodeError and UnicodeDecodeError are ValueErrors,
\* IsADirectoryError and FileNotFoundError are OSErrors
IsValueError(exc) == exc \in {"ValueError", "JSONDecodeError", "UnicodeDecodeError"}

\* TemplateMetadata.from_json: open, json.load, build the variables, construct
FromJson(file, now) ==
    IF file.kind = "missing" THEN Raise("FileNotFoundError")
    ELSE IF file.kind = "dir" THEN Raise("IsADirectoryError")
    ELSE IF file.doc.kind = "notutf8" THEN Raise("UnicodeDecodeError")
    ELSE IF file.doc.kind = "garbage" THEN Raise("JSONDecodeError")
    ELSE IF file.doc.kind # "object" THEN Raise("AttributeError")
    ELSE LET data == file.doc.fields
             vs   == Get(data, "variables", [kind |-> "object", items |-> <<>>])
         IN  IF vs.kind # "object" THEN Raise("AttributeError")
             ELSE IF \E i \in 1..Len(vs.items) : vs.items[i].data.kind # "object"
             THEN Raise("AttributeError")
             ELSE LET variables ==
                        [i \in 1..Len(vs.items) |->
                            LET var_name == vs.items[i].key
                                var_data == vs.items[i].data.fields
                            IN  [key |-> var_name,
                                 var |-> TemplateVariable(
                                            var_name,
                                            Get(var_data, "type", "string"),
                                            Get(var_data, "description", <<>>),
                                            Get(var_data, "required", FALSE),
                                            Get(var_data, "default", None))]]
                  IN  Ok(TemplateMetadata(
                            [version |-> Get(data, "version", TemplateVersion),
                             name |-> Get(data, "name", <<>>),
                             description |-> Get(data, "description", <<>>),
                             author |-> Get(data, "author", <<>>),
                             created_at |-> Get(data, "created_at", <<>>),
                             prozes_version |-> Get(data, "prozes_version", <<"1", ".", "0", ".", "0">>),
                             variables |-> variables,
                             dependencies |-> Get(data, "dependencies", EmptyDict),
                             variable_substitution |-> Get(data, "variable_substitution", EmptyDict),
                             file_patterns |-> Get(data, "file_patterns", EmptyDict)],
                            now))

\* TemplateMetadata.validate: every violation, in order
Validate(m) ==
    (IF m.name = <<>> THEN <<[kind |-> "Template name is required"]>> ELSE <<>>)
    \o (IF m.version = <<>> THEN <<[kind |-> "Template version is required"]>> ELSE <<>>)
    \o SelectSeq([i \in 1..Len(m.variables) |->
                    [kind |-> "Variable key doesn't match name",
                     key |-> m.variables[i].key, name |-> m.variables[i].var.name]],
                 LAMBDA e : e.key # e.name)

---------------------------------------------------------------------------
(* SpecSubst: substitute_variables on every short text                     *)

SubstAlphabet == {"{", "}", "a", "1"}

RECURSIVE TextsUpTo(_, _)
TextsUpTo(A, n) ==
    IF n = 0 THEN {<<>>}
    ELSE LET shorter == TextsUpTo(A, n - 1)
         IN  shorter \cup {Append(t, c) : t \in {u \in shorter : Len(u) = n - 1}, c \in A}

\* longer texts: two tokens side by side, a token inside braces, a token with a two-character name
SubstLongTexts ==
    { <<"{", "{", "a", "}", "}", "{", "{", "a", "1", "}", "}">>,
      <<"{", "{", "{", "a", "}", "}", "}", "1">>,
      <<"{", "{", "a", "{", "{", "a", "1", "}", "}", "}", "}">>,
      <<"a", "{", "{", "b", "}", "}", "1", "{", "{", "a", "}", "}">> }

SubstMaps ==
    { EmptyDict,
      <<"a">> :> StrVal(<<"1", "}">>),
      <<"a">> :> IntVal(<<"1">>),
      (<<"a">> :> StrVal(<<"{", "{", "a", "1", "}", "}">>)) @@ (<<"a", "1">> :> BoolVal(TRUE)),
      <<"a", "1">> :> None }

InitSubst ==
    /\ store = EmptyDict
    /\ dest = EmptyDest
    /\ clock = Today
    /\ linesep = <<"LF">>
    /\ captured = {}
    /\ arg \in [content : TextsUpTo(SubstAlphabet, MaxLen) \cup SubstLongTexts, variables : SubstMaps]
    /\ last = [op |-> "none"]

Substitute ==
    /\ last.op = "none"
    /\ last' = [op |-> "substitute_variables",
                result |-> SubstituteVariables(arg.content, arg.variables)]
    /\ UNCHANGED <<store, dest, clock, linesep, captured, arg>>

NextSubst == Substitute

SpecSubst == InitSubst /\ [][NextSubst]_vars

\* the positions where a token starts: "{{", an identifier, "}}"
IsToken(s, i, e) ==
    /\ 1 <= i /\ i + 4 <= e /\ e <= Len(s)
    /\ s[i] = "{" /\ s[i + 1] = "{" /\ s[e - 1] = "}" /\ s[e] = "}"
    /\ s[i + 2] \in IdStart
    /\ \A j \in (i + 3)..(e - 2) : s[j] \in IdChar

TokensOf(s) == {t \in (1..Len(s)) \X (1..Len(s)) : IsToken(s, t[1], t[2])}

\* what the claim expects at position i: the value's text at a known token's start,
\* nothing inside a known token, the character itself everywhere else
ExpectedAt(s, i, variables) ==
    LET known == {t \in TokensOf(s) : SubSeq(s, t[1] + 2, t[2] - 2) \in DOMAIN variables}
    IN  IF \E t \in known : t[1] = i
        THEN LET t == CHOOSE u \in known : u[1] = i
             IN  Str(variables[SubSeq(s, t[1] + 2, t[2] - 2)])
        ELSE IF \E t \in known : t[1] < i /\ i <= t[2] THEN <<>> ELSE <<s[i]>>

RECURSIVE Concat(_, _, _, _)
Concat(s, i, n, variables) ==
    IF i > n THEN <<>> ELSE ExpectedAt(s, i, variables) \o Concat(s, i + 1, n, variables)

\* C9: substitute_variables replaces every {{identifier}} token whose identifier is a
\* key of the map by str(value), leaves every other token and all other text as it is,
\* and always returns a text.
C9_SubstituteBestEffort ==
    last.op = "substitute_variables" =>
        last.result = Concat(arg.content, 1, Len(arg.content), arg.variables)

\* a text with a known token and an unknown one has been substituted
C9_Witness ==
    /\ last.op = "substitute_variables"
    /\ arg.content = <<"a", "{", "{", "b", "}", "}", "1", "{", "{", "a", "}", "}">>
    /\ arg.variables = (<<"a">> :> IntVal(<<"1">>))
    /\ last.result = <<"a", "{", "{", "b", "}", "}", "1", "1">>


---------------------------------------------------------------------------
(* SpecMeta: save and from_json on constructed metadata                    *)

MetaVarChoices ==
    { [key |-> k, var |-> TemplateVariable(n, ty, <<"d">>, r, d)] :
        k \in {<<"x">>, <<"y">>}, n \in {<<"x">>, <<"y">>},
        ty \in {"string", "integer", "boolean"}, r \in BOOLEAN,
        d \in {None, StrVal(<<"a">>), IntVal(<<"1">>), BoolVal(TRUE)} }

\* the variable dicts of the enumerated metadata: none, one, or x then a fixed y
MetaVariables ==
    {<<>>} \cup {<<e>> : e \in MetaVarChoices}
    \cup {<<e, [key |-> <<"y">>, var |-> TemplateVariable(<<"y">>, "integer", <<>>, TRUE, None)]>> :
            e \in {c \in MetaVarChoices : c.key = <<"x">>}}

MetaInputs ==
    { TemplateMetadata(
        [version |-> ver, name |-> nm, description |-> <<"d">>, author |-> <<>>,
         created_at |-> ca, prozes_version |-> <<"1", ".", "0", ".", "0">>,
         variables |-> vs, dependencies |-> cfg.deps,
         variable_substitution |-> cfg.vsub, file_patterns |-> cfg.fpat], Today) :
        ver \in {<<>>, TemplateVersion}, nm \in {<<>>, <<"a">>},
        ca \in {<<>>, <<"0", "T", "0">>}, vs \in MetaVariables,
        cfg \in { [deps |-> EmptyDict, vsub |-> EmptyDict, fpat |-> EmptyDict],
                  [deps |-> (<<"Pipfile">> :> <<"structure", "/", "Pipfile">>),
                   vsub |-> ("enabled" :> "False"),
                   fpat |-> ("text_extensions" :> ".py")] } }

InitMeta ==
    /\ store = EmptyDict
    /\ dest = EmptyDest
    /\ clock = Tomorrow
    /\ linesep = <<"LF">>
    /\ captured = {}
    /\ arg \in [m : MetaInputs]
    /\ last = [op |-> "none"]

\* M.save(path) and then TemplateMetadata.from_json(path)
SaveAndLoad ==
    /\ last.op = "none"
    /\ last' = [op |-> "save, from_json", loaded |-> FromJson(Save(arg.m), clock)]
    /\ UNCHANGED <<store, dest, clock, linesep, captured, arg>>

NextMeta == SaveAndLoad

SpecMeta == InitMeta /\ [][NextMeta]_vars

\* the variables of a metadata object by name: type, required flag and default
VariableView(m) ==
    { [name |-> m.variables[i].var.name, type |-> m.variables[i].var.type,
       required |-> m.variables[i].var.required, default |-> m.variables[i].var.default] :
        i \in 1..Len(m.variables) }

\* C7: for every metadata M that validates, from_json(save(M)) has the same name,
\* version, created_at and dependencies, the same variables (name, type, required,
\* default), and the same keys of variable_substitution and file_patterns.
C7_MetadataRoundTrip ==
    (last.op = "save, from_json" /\ Validate(arg.m) = <<>>) =>
        /\ last.loaded.ok
        /\ last.loaded.val.name = arg.m.name
        /\ last.loaded.val.version = arg.m.version
        /\ last.loaded.val.created_at = arg.m.created_at
        /\ last.loaded.val.dependencies = arg.m.dependencies
        /\ VariableView(last.loaded.val) = VariableView(arg.m)
        /\ DOMAIN last.loaded.val.variable_substitution = DOMAIN arg.m.variable_substitution
        /\ DOMAIN last.loaded.val.file_patterns = DOMAIN arg.m.file_patterns

\* a valid metadata with two variables, one with a default, has been saved and loaded
C7_Witness ==
    /\ last.op = "save, from_json"
    /\ Validate(arg.m) = <<>>
    /\ Len(arg.m.variables) = 2
    /\ arg.m.variables[1].var.default = IntVal(<<"1">>)
    /\ arg.m.created_at = Today.iso
    /\ last.loaded.ok

---------------------------------------------------------------------------
(* Files, paths and the file classifier                                    *)

\* a regular file: its bytes and whether this process may open it for reading
File(bytes, readable) == [bytes |-> bytes, readable |-> readable]

\* DEFAULT_TEXT_EXTENSIONS
DefaultTextExtensions ==
    {".py", ".txt", ".md", ".json", ".toml", ".yaml", ".yml", ".ini", ".cfg", ".conf",
     ".rst", ".html", ".css", ".js", ".sh", ".bat", ".ps1", ".xml", ".env", ".gitignore"}

\* binary_extensions of detect_file_type
BinaryExtensions ==
    {".pyc", ".pyo", ".so", ".dll", ".dylib", ".exe", ".png", ".jpg", ".jpeg", ".gif",
     ".ico", ".pdf", ".zip", ".tar", ".gz", ".bz2", ".whl", ".egg"}

\* DEFAULT_EXCLUDE_DIRS, each a whole path component
DefaultExcludeDirs ==
    {<<"__pycache__">>, <<".git">>, <<"venv">>, <<".venv">>, <<"env">>, <<".env">>,
     <<"node_modules">>, <<".pytest_cache">>, <<".mypy_cache">>, <<".tox">>,
     <<"*", ".egg-info">>, <<"dist">>, <<"build">>, <<".idea">>, <<".vscode">>}

\* the symbols that start with a dot: an extension when they end a longer name
DotAtoms == DefaultTextExtensions \cup BinaryExtensions \cup {".dat", ".PY", ".egg-info"}

\* str.lower() on an extension
Lower(sym) == IF sym = ".PY" THEN ".py" ELSE sym

RECURSIVE SplitPath(_)
\* Path.parts of a relative path string: the components between the "/"
SplitPath(p) ==
    IF \A i \in 1..Len(p) : p[i] # "/" THEN <<p>>
    ELSE LET i == CHOOSE j \in 1..Len(p) : p[j] = "/" /\ \A h \in 1..(j - 1) : p[h] # "/"
         IN  <<SubSeq(p, 1, i - 1)>> \o SplitPath(SubSeq(p, i + 1, Len(p)))

\* Path.name
BaseName(p) == LET parts == SplitPath(p) IN parts[Len(parts)]

\* Path.suffix: the last dotted part of the name, none for a name that is only that part
Suffix(p) ==
    LET name == BaseName(p)
    IN  IF Len(name) >= 2 /\ name[Len(name)] \in DotAtoms THEN name[Len(name)] ELSE ""

\* f.read(8192)
ChunkSize == 8192

\* bytes.decode('utf-8'): fails on a byte sequence that is no UTF-8
Decodes(bytes) == \A i \in 1..Len(bytes) : bytes[i] # "BAD"

\* detect_file_type: 'text', 'binary' or 'skip'
DetectFileType(path, file) ==
    IF Lower(Suffix(path)) \in DefaultTextExtensions THEN "text"
    ELSE IF Lower(Suffix(path)) \in BinaryExtensions THEN "binary"
    ELSE IF ~file.readable THEN "skip"
    ELSE LET chunk == SubSeq(file.bytes, 1, IF Len(file.bytes) < ChunkSize THEN Len(file.bytes) ELSE ChunkSize)
         IN  IF \E i \in 1..Len(chunk) : chunk[i] = "NUL" THEN "binary"
             ELSE IF Decodes(chunk) THEN "text" ELSE "binary"

RECURSIVE UniversalNewlines(_)
\* reading in text mode with newline=None: "\r\n" and "\r" become "\n"
UniversalNewlines(s) ==
    IF s = <<>> THEN <<>>
    ELSE IF s[1] = "CR"
         THEN IF Len(s) >= 2 /\ s[2] = "LF"
              THEN <<"LF">> \o UniversalNewlines(SubSeq(s, 3, Len(s)))
              ELSE <<"LF">> \o UniversalNewlines(Tail(s))
         ELSE <<s[1]>> \o UniversalNewlines(Tail(s))

RECURSIVE WriteNewlines(_, _)
\* writing in text mode with newline=None: "\n" becomes os.linesep
WriteNewlines(s, sep) ==
    IF s = <<>> THEN <<>>
    ELSE (IF s[1] = "LF" THEN sep ELSE <<s[1]>>) \o WriteNewlines(Tail(s), sep)

\* Path.read_text(encoding='utf-8')
ReadText(file) ==
    IF ~file.readable THEN Raise("PermissionError")
    ELSE IF ~Decodes(file.bytes) THEN Raise("UnicodeDecodeError")
    ELSE Ok(UniversalNewlines(file.bytes))

\* Path.write_text(content, encoding='utf-8'): the file it leaves
WriteText(content, sep) == File(WriteNewlines(content, sep), TRUE)

\* shutil.copy2(src, dst): the bytes and the mode bits of the source
Copy2(file) ==
    IF ~file.readable THEN Raise("PermissionError") ELSE Ok(File(file.bytes, file.readable))

---------------------------------------------------------------------------
(* The project scanner                                                     *)

\* VARIABLE_PATTERN.findall(content) as a set
DetectVariablesInFile(content) ==
    {SubSeq(content, i + 2, MatchEnd(content, i) - 2) :
        i \in {j \in 1..Len(content) : MatchEnd(content, j) # 0}}

\* a directory on disk given to capture: the components of its own path, what is at
\* that path ("dir", "file", "missing") and the files below it by relative path
Source(at, kind, tree) == [at |-> at, kind |-> kind, tree |-> tree]

SeqRange(s) == {s[i] : i \in 1..Len(s)}

\* any(excluded in item.parts for excluded in exclude_dirs): item is the path
\* joined to the source's own path
IsExcluded(source, path, exclude_dirs) ==
    \E c \in SeqRange(source.at) \cup SeqRange(SplitPath(path)) : c \in exclude_dirs

\* scan_project_structure
ScanProjectStructure(source, exclude_patterns) ==
    LET exclude_dirs == DefaultExcludeDirs \cup exclude_patterns
        files == {p \in DOMAIN source.tree : ~IsExcluded(source, p, exclude_dirs)}
        text_files == {p \in files : DetectFileType(p, source.tree[p]) = "text"}
        binary_files == {p \in files : DetectFileType(p, source.tree[p]) = "binary"}
        readable_text == {p \in text_files : ReadText(source.tree[p]).ok}
    IN  [files |-> files,
         text_files |-> text_files,
         binary_files |-> binary_files,
         detected_variables |->
            UNION {DetectVariablesInFile(ReadText(source.tree[p]).val) : p \in readable_text},
         total_files |-> Cardinality(files)]

\* dep_files of extract_dependencies
DepFiles == {<<"requirements", ".txt">>, <<"requirements-dev", ".txt">>, <<"Pipfile">>,
             <<"poetry", ".lock">>, <<"pyproject", ".toml">>}

\* extract_dependencies: the well-known files at the source root
ExtractDependencies(source) ==
    LET present == {d \in DepFiles : \E p \in DOMAIN source.tree : SplitPath(p)[1] = d}
    IN  [d \in present |-> <<"structure", "/">> \o d]

---------------------------------------------------------------------------
(* The template store                                                      *)

\* validate_template_name: re.match anchors at the start, and "$" also matches
\* before a newline that ends the string
ValidateTemplateName(name) ==
    IF name = <<>> THEN [valid |-> FALSE, error |-> "Template name cannot be empty"]
    ELSE IF name[1] \notin IdStart
         THEN [valid |-> FALSE, error |-> "Template name must start with a letter or underscore"]
    ELSE LET n == IF name[Len(name)] = "LF" THEN Len(name) - 1 ELSE Len(name)
         IN  IF \A i \in 2..n : name[i] \in IdChar \cup {"-"}
             THEN [valid |-> TRUE]
             ELSE [valid |-> FALSE,
                   error |-> "Template name can only contain letters, numbers, underscores, and hyphens"]

\* a template's directory in the store: what is at template.json, and structure/
\* (whether it exists and the files below it by relative path)
TemplateDir(json, structure_exists, files) ==
    [json |-> json, structure |-> [exists |-> structure_exists, files |-> files]]

\* template_exists: the path exists
TemplateExists(st, name) == name \in DOMAIN st

\* Template.load
Load(st, name, now) ==
    IF name \notin DOMAIN st THEN Raise("FileNotFoundError")
    ELSE IF st[name].json.kind = "missing" THEN Raise("ValueError")
    ELSE IF ~st[name].structure.exists THEN Raise("ValueError")
    ELSE LET loaded == FromJson(st[name].json, now)
         IN  IF ~loaded.ok THEN loaded
             ELSE IF Validate(loaded.val) # <<>>
                  THEN RaiseWith("ValueError", Validate(loaded.val))
                  ELSE Ok([name |-> name, path |-> name, metadata |-> loaded.val])

\* ord() of the characters a template name is made of
Ord(sym) ==
    CASE sym = "LF" -> 10 [] sym = "-" -> 45 [] sym = "1" -> 49 [] sym = "_" -> 95
      [] sym = "a" -> 97 [] sym = "b" -> 98 [] OTHER -> 0

RECURSIVE StrLess(_, _)
\* s < t on str
StrLess(s, t) ==
    IF t = <<>> THEN FALSE
    ELSE IF s = <<>> THEN TRUE
    ELSE IF s[1] = t[1] THEN StrLess(Tail(s), Tail(t))
    ELSE Ord(s[1]) < Ord(t[1])

SortedByNameFirstOnly(templates) ==
    IF templates = {} THEN <<>>
    ELSE <<CHOOSE t \in templates : \A u \in templates : ~StrLess(u.name, t.name)>>

RECURSIVE SortedByNameDescending(_)
SortedByNameDescending(templates) ==
    IF templates = {} THEN <<>>
    ELSE LET first == CHOOSE t \in templates : \A u \in templates : ~StrLess(t.name, u.name)
         IN  <<first>> \o SortedByNameDescending(templates \ {first})

RECURSIVE SortedByName(_)
\* sorted(templates, key=lambda t: t.name)
SortedByName(templates) ==
    IF templates = {} THEN <<>>
    ELSE LET first == CHOOSE t \in templates : \A u \in templates : ~StrLess(u.name, t.name)
         IN  <<first>> \o SortedByName(templates \ {first})

\* except (FileNotFoundError, ValueError)
IsCaughtByLookup(exc) == exc = "FileNotFoundError" \/ IsValueError(exc)

\* list_custom_templates: every subdirectory is loaded, a load that raises one of
\* the caught exceptions is skipped, any other exception leaves the function
ListCustomTemplates(st, now) ==
    LET uncaught == {n \in DOMAIN st : ~Load(st, n, now).ok /\ ~IsCaughtByLookup(Load(st, n, now).exc)}
    IN  IF uncaught # {}
        THEN Raise(Load(st, CHOOSE n \in uncaught : TRUE, now).exc)
        ELSE Ok(SortedByName({Load(st, n, now).val : n \in {m \in DOMAIN st : Load(st, m, now).ok}}))

\* get_template: None for a load that raises one of the caught exceptions
GetTemplate(st, name, now) ==
    LET loaded == Load(st, name, now)
    IN  IF loaded.ok THEN loaded
        ELSE IF IsCaughtByLookup(loaded.exc) THEN Ok(None)
        ELSE Raise(loaded.exc)

RmTreeOnlyMetadata(st, name) == [st EXCEPT ![name].json = NoFile]

\* shutil.rmtree(template_path): the store without the directory
RmTree(st, name) == [n \in (DOMAIN st) \ {name} |-> st[n]]

\* delete_template: the store it leaves and what it returns or raises;
\* confirmed is the answer Confirm.ask would give
DeleteTemplate(st, name, force, confirmed) ==
    IF name \notin DOMAIN st THEN [store |-> st, result |-> Raise("FileNotFoundError")]
    ELSE IF ~force /\ ~confirmed THEN [store |-> st, result |-> Ok(FALSE)]
    ELSE [store |-> RmTree(st, name), result |-> Ok(TRUE)]

---------------------------------------------------------------------------
(* Template capture                                                        *)

\* q lies below the directory p
IsPathPrefix(p, q) ==
    Len(p) < Len(q) /\ SubSeq(q, 1, Len(p)) = p /\ q[Len(p) + 1] = "/"

RECURSIVE SetToSeq(_)
\* the elements of a set in the order an iteration yields them
SetToSeq(S) ==
    IF S = {} THEN <<>> ELSE LET x == CHOOSE y \in S : TRUE IN <<x>> \o SetToSeq(S \ {x})

\* every order in which a directory walk can yield the paths of a set
Orderings(S) ==
    {o \in [1..Cardinality(S) -> S] : \A i, j \in 1..Cardinality(S) : i # j => o[i] # o[j]}

\* p is a directory of the tree: some file lies below it
IsDirIn(files, p) == \E q \in DOMAIN files : IsPathPrefix(p, q)

\* the body of capture's copy loop for one file: the files of structure/ afterwards, and
\* the exception that leaves the loop ("none" when the file was copied or skipped).
\* mkdir of the parent is outside the try; write_text onto a directory raises inside
\* it; copy2 onto a directory copies into it under the source's name
CopyOneFile(files, source, scan, file_path, sep) ==
    IF \E q \in DOMAIN files : IsPathPrefix(q, file_path)
    THEN [files |-> files, exc |-> "FileExistsError"]
    ELSE IF file_path \in scan.text_files
    THEN LET content == ReadText(source.tree[file_path])
         IN  IF content.ok /\ ~IsDirIn(files, file_path)
             THEN [files |-> Update(files, file_path :> WriteText(content.val, sep)), exc |-> "none"]
             ELSE [files |-> files, exc |-> "none"]
    ELSE LET copied == Copy2(source.tree[file_path])
             dst == IF IsDirIn(files, file_path)
                    THEN file_path \o <<"/">> \o BaseName(file_path) ELSE file_path
         IN  IF copied.ok /\ ~IsDirIn(files, dst)
             THEN [files |-> Update(files, dst :> copied.val), exc |-> "none"]
             ELSE [files |-> files, exc |-> "none"]

RECURSIVE CopyFiles(_, _, _, _, _)
\* for file_path in scan_result['files'], in the order the walk gave them
CopyFiles(files, source, scan, order, sep) ==
    IF order = <<>> THEN [files |-> files, exc |-> "none"]
    ELSE LET one == CopyOneFile(files, source, scan, Head(order), sep)
         IN  IF one.exc # "none" THEN one
             ELSE CopyFiles(one.files, source, scan, Tail(order), sep)

CaptureVariablesAlwaysDetecting(scan, detect_variables) ==
    << [key |-> <<"project_name">>,
        var |-> TemplateVariable(<<"project_name">>, "string", <<"Nome do projeto">>, TRUE, None)],
       [key |-> <<"author">>,
        var |-> TemplateVariable(<<"author">>, "string", <<"Nome do autor">>, FALSE,
                                 StrVal(<<"Anonymous">>))] >>
    \o LET detected == SetToSeq(scan.detected_variables \ {<<"project_name">>, <<"author">>})
       IN  [i \in 1..Len(detected) |->
               [key |-> detected[i],
                var |-> TemplateVariable(detected[i], "string",
                                         <<"Variable ">> \o detected[i], FALSE, None)]]

\* the variables capture declares: project_name, author, and with detect_variables one
\* optional string variable for each detected name not yet declared
CaptureVariables(scan, detect_variables) ==
    LET builtin ==
            << [key |-> <<"project_name">>,
                var |-> TemplateVariable(<<"project_name">>, "string", <<"Nome do projeto">>, TRUE, None)],
               [key |-> <<"author">>,
                var |-> TemplateVariable(<<"author">>, "string", <<"Nome do autor">>, FALSE,
                                         StrVal(<<"Anonymous">>))] >>
        detected == IF detect_variables
                    THEN SetToSeq(scan.detected_variables \ {<<"project_name">>, <<"author">>})
                    ELSE <<>>
    IN  builtin \o [i \in 1..Len(detected) |->
                       [key |-> detected[i],
                        var |-> TemplateVariable(detected[i], "string",
                                                 <<"Variable ">> \o detected[i], FALSE, None)]]

\* the arguments of one capture call; order is the order in which the walk over the
\* source yields its files
CaptureCall(source, template_name, description, author, exclude_patterns, detect_variables, order) ==
    [source |-> source, template_name |-> template_name, description |-> description,
     author |-> author, exclude_patterns |-> exclude_patterns,
     detect_variables |-> detect_variables, order |-> order]

CapturePreconditionsNameFirst(c) ==
    IF ~ValidateTemplateName(c.template_name).valid
    THEN RaiseWith("ValueError", <<[kind |-> ValidateTemplateName(c.template_name).error]>>)
    ELSE IF c.source.kind = "missing"
    THEN RaiseWith("FileNotFoundError", <<[kind |-> "Source directory not found"]>>)
    ELSE IF c.source.kind # "dir"
    THEN RaiseWith("ValueError", <<[kind |-> "Source path is not a directory"]>>)
    ELSE Ok(TRUE)

\* the checks capture starts with: the first that fails raises
CapturePreconditions(c) ==
    IF c.source.kind = "missing"
    THEN RaiseWith("FileNotFoundError", <<[kind |-> "Source directory not found"]>>)
    ELSE IF c.source.kind # "dir"
    THEN RaiseWith("ValueError", <<[kind |-> "Source path is not a directory"]>>)
    ELSE IF ~ValidateTemplateName(c.template_name).valid
    THEN RaiseWith("ValueError", <<[kind |-> ValidateTemplateName(c.template_name).error]>>)
    ELSE Ok(TRUE)

\* create_template_from_directory: the store it leaves and what it returns or raises
CreateTemplateFromDirectory(st, c, now, sep) ==
    IF ~CapturePreconditions(c).ok THEN [store |-> st, result |-> CapturePreconditions(c)]
    ELSE LET name == c.template_name
             before == IF name \in DOMAIN st THEN st[name] ELSE TemplateDir(NoFile, FALSE, EmptyDict)
             scan == ScanProjectStructure(c.source, c.exclude_patterns)
             metadata == TemplateMetadata(
                            [version |-> TemplateVersion, name |-> name,
                             description |-> c.description, author |-> c.author,
                             created_at |-> <<>>, prozes_version |-> <<"1", ".", "0", ".", "0">>,
                             variables |-> CaptureVariables(scan, c.detect_variables),
                             dependencies |-> ExtractDependencies(c.source),
                             variable_substitution |-> EmptyDict,
                             file_patterns |-> EmptyDict], now)
             copy == CopyFiles(before.structure.files, c.source, scan, c.order, sep)
             copied == Update(st, name :> TemplateDir(before.json, TRUE, copy.files))
         IN  IF copy.exc # "none" THEN [store |-> copied, result |-> Raise(copy.exc)]
             ELSE IF before.json.kind = "dir"
                  THEN [store |-> copied, result |-> Raise("IsADirectoryError")]
             ELSE LET saved == Update(st, name :> TemplateDir(Save(metadata), TRUE, copy.files))
                  IN  [store |-> saved, result |-> Load(saved, name, now)]

---------------------------------------------------------------------------
(* Template application                                                    *)

\* the keys of a dict kept in insertion order, a sequence of [key, val]
Keys(od) == {od[i].key : i \in 1..Len(od)}

\* od[key] = val: a present key keeps its place, a new key goes last
SetItem(od, key, val) ==
    IF key \in Keys(od)
    THEN [i \in 1..Len(od) |-> IF od[i].key = key THEN [key |-> key, val |-> val] ELSE od[i]]
    ELSE Append(od, [key |-> key, val |-> val])

RECURSIVE UpdateOrdered(_, _)
\* od.update(other)
UpdateOrdered(od, other) ==
    IF other = <<>> THEN od
    ELSE UpdateOrdered(SetItem(od, Head(other).key, Head(other).val), Tail(other))

\* the dict of an ordered dict
AsDict(od) == [k \in Keys(od) |-> od[CHOOSE i \in 1..Len(od) : od[i].key = k].val]

\* the built-in variables apply starts from
BuiltinVariables(project_name, now) ==
    << [key |-> <<"project_name">>, val |-> StrVal(project_name)],
       [key |-> <<"date">>, val |-> StrVal(now.date)],
       [key |-> <<"year">>, val |-> StrVal(now.year)] >>

RECURSIVE AddDefaultsSkippingRequired(_, _, _)
AddDefaultsSkippingRequired(all_variables, declared, variables) ==
    IF declared = <<>> THEN all_variables
    ELSE LET var_name == Head(declared).key
             var == Head(declared).var
         IN  AddDefaultsSkippingRequired(
                IF var_name \notin Keys(variables) /\ var.default # None /\ ~var.required
                THEN SetItem(all_variables, var_name, var.default) ELSE all_variables,
                Tail(declared), variables)

RECURSIVE AddDefaults(_, _, _)
\* the loop that adds the default of every declared variable the caller did not supply
AddDefaults(all_variables, declared, variables) ==
    IF declared = <<>> THEN all_variables
    ELSE LET var_name == Head(declared).key
             var == Head(declared).var
         IN  AddDefaults(
                IF var_name \notin Keys(variables) /\ var.default # None
                THEN SetItem(all_variables, var_name, var.default) ELSE all_variables,
                Tail(declared), variables)

\* all_variables.update(variables): what the caller provides overrides what is there
MergeProvided(all_variables, variables) == UpdateOrdered(all_variables, variables)

\* all_variables of apply_template: the built-ins, then the defaults, then the caller's
ResolveVariables(metadata, project_name, variables, now) ==
    MergeProvided(AddDefaults(BuiltinVariables(project_name, now), metadata.variables, variables),
                  variables)

RECURSIVE ValidateVariablesByValueOnly(_, _)
ValidateVariablesByValueOnly(declared, all_variables) ==
    IF declared = <<>> THEN Ok(TRUE)
    ELSE LET var_name == Head(declared).key
             var == Head(declared).var
             checked == ValidateValue(var, Get(AsDict(all_variables), var_name, var.default))
         IN  IF ~checked.valid THEN RaiseWith("ValueError", <<checked.error>>)
             ELSE ValidateVariablesByValueOnly(Tail(declared), all_variables)

RECURSIVE ValidateVariables(_, _)
\* the validation loop: the first declared variable that is required and missing, or
\* whose value validate_value rejects, raises
ValidateVariables(declared, all_variables) ==
    IF declared = <<>> THEN Ok(TRUE)
    ELSE LET var_name == Head(declared).key
             var == Head(declared).var
             value == Get(AsDict(all_variables), var_name, var.default)
             checked == ValidateValue(var, value)
         IN  IF var.required /\ var_name \notin Keys(all_variables)
             THEN RaiseWith("ValueError", <<[kind |-> "Required variable is missing", var |-> var_name]>>)
             ELSE IF ~checked.valid THEN RaiseWith("ValueError", <<checked.error>>)
             ELSE ValidateVariables(Tail(declared), all_variables)

RECURSIVE StrReplace(_, _, _)
\* str.replace(old, new): every occurrence, left to right, old is not empty
StrReplace(s, old, new) ==
    IF Len(s) < Len(old) THEN s
    ELSE IF SubSeq(s, 1, Len(old)) = old
         THEN new \o StrReplace(SubSeq(s, Len(old) + 1, Len(s)), old, new)
         ELSE <<s[1]>> \o StrReplace(Tail(s), old, new)

RECURSIVE SubstituteInPath(_, _)
\* the loop over all_variables.items() that replaces {{var_name}} in the path string
SubstituteInPath(path, all_variables) ==
    IF all_variables = <<>> THEN path
    ELSE SubstituteInPath(
            StrReplace(path, <<"{", "{">> \o Head(all_variables).key \o <<"}", "}">>,
                       Str(Head(all_variables).val)),
            Tail(all_variables))

\* project_path / new_path_str: an absolute right-hand side replaces the left
JoinPath(base, rel) ==
    IF rel = <<>> THEN base
    ELSE IF rel[1] = "/" THEN rel
    ELSE base \o <<"/">> \o rel

\* the destination directory: the directories made and the files by path
PathExists(d, p) == p \in d.dirs \/ p \in DOMAIN d.files \/ IsDirIn(d.files, p)

IsDirAt(d, p) == p \in d.dirs \/ IsDirIn(d.files, p)

ProjectNeverExists(d, project_path) == FALSE

\* project_path.exists()
ProjectExists(d, project_path) == PathExists(d, project_path)

\* shutil.copy2(source_file, dest_file) into the destination directory
Copy2Into(d, file, source_path, dest_file) ==
    LET copied == Copy2(file)
        dst == IF IsDirAt(d, dest_file) THEN dest_file \o <<"/">> \o BaseName(source_path) ELSE dest_file
    IN  IF ~copied.ok THEN [dest |-> d, exc |-> copied.exc]
        ELSE IF IsDirAt(d, dst) THEN [dest |-> d, exc |-> "IsADirectoryError"]
        ELSE [dest |-> [d EXCEPT !.files = Update(@, dst :> copied.val)], exc |-> "none"]

\* the body of apply's loop for one stored file: the destination afterwards and the
\* exception that leaves the loop ("none" when there is none)
ApplyOneFile(d, project_path, files, relative_path, all_variables, sep) ==
    LET source_file == files[relative_path]
        dest_file == JoinPath(project_path, SubstituteInPath(relative_path, all_variables))
        content == ReadText(source_file)
    IN  IF \E q \in DOMAIN d.files : IsPathPrefix(q, dest_file)
        THEN [dest |-> d, exc |-> "FileExistsError"]
        ELSE IF DetectFileType(relative_path, source_file) = "text"
                /\ content.ok /\ ~IsDirAt(d, dest_file)
        THEN [dest |-> [d EXCEPT !.files = Update(@, dest_file :>
                            WriteText(SubstituteVariables(content.val, AsDict(all_variables)), sep))],
              exc |-> "none"]
        ELSE Copy2Into(d, source_file, relative_path, dest_file)

RECURSIVE ApplyFiles(_, _, _, _, _, _)
\* for source_file in structure_path.rglob('*'), in the order the walk gives them
ApplyFiles(d, project_path, files, order, all_variables, sep) ==
    IF order = <<>> THEN [dest |-> d, exc |-> "none"]
    ELSE LET one == ApplyOneFile(d, project_path, files, Head(order), all_variables, sep)
         IN  IF one.exc # "none" THEN one
             ELSE ApplyFiles(one.dest, project_path, files, Tail(order), all_variables, sep)

\* the arguments of one apply call; order is the order in which the walk over
\* structure/ yields its files
ApplyCall(name, project_name, variables, order) ==
    [name |-> name, project_name |-> project_name, variables |-> variables, order |-> order]

\* apply_template with the project directory made before the variables are validated
ApplyTemplateMkdirFirst(st, d, template, c, now, sep) ==
    LET project_path == c.project_name
        all_variables == ResolveVariables(template.metadata, c.project_name, c.variables, now)
        valid == ValidateVariables(template.metadata.variables, all_variables)
        made == [d EXCEPT !.dirs = @ \cup {project_path}]
        done == ApplyFiles(made, project_path, st[template.name].structure.files, c.order,
                           all_variables, sep)
    IN  IF ProjectExists(d, project_path)
        THEN [dest |-> d, resolved |-> <<>>,
              result |-> RaiseWith("ValueError", <<[kind |-> "Project directory already exists",
                                                    var |-> project_path]>>)]
        ELSE IF ~valid.ok THEN [dest |-> made, resolved |-> all_variables, result |-> valid]
        ELSE IF done.exc # "none"
             THEN [dest |-> done.dest, resolved |-> all_variables, result |-> Raise(done.exc)]
        ELSE [dest |-> done.dest, resolved |-> all_variables, result |-> Ok(project_path)]

\* apply_template on the loaded template: the destination it leaves, what it returns or
\* raises, and all_variables as far as it got
ApplyTemplate(st, d, template, c, now, sep) ==
    LET project_path == c.project_name
        all_variables == ResolveVariables(template.metadata, c.project_name, c.variables, now)
        valid == ValidateVariables(template.metadata.variables, all_variables)
        made == [d EXCEPT !.dirs = @ \cup {project_path}]
        done == ApplyFiles(made, project_path, st[template.name].structure.files, c.order,
                           all_variables, sep)
    IN  IF ProjectExists(d, project_path)
        THEN [dest |-> d, resolved |-> <<>>,
              result |-> RaiseWith("ValueError", <<[kind |-> "Project directory already exists",
                                                    var |-> project_path]>>)]
        ELSE IF ~valid.ok THEN [dest |-> d, resolved |-> all_variables, result |-> valid]
        ELSE IF done.exc # "none"
             THEN [dest |-> done.dest, resolved |-> all_variables, result |-> Raise(done.exc)]
        ELSE [dest |-> done.dest, resolved |-> all_variables, result |-> Ok(project_path)]

---------------------------------------------------------------------------
(* The calls, as actions on the store and the destination directory        *)

\* template save: create_template_from_directory on one of the given calls
Capture(calls) ==
    \E c \in calls :
        LET out == CreateTemplateFromDirectory(store, c, clock, linesep)
        IN  /\ store' = out.store
            /\ captured' = IF out.result.ok THEN captured \cup {c.template_name} ELSE captured
            /\ last' = [op |-> "capture", call |-> c, result |-> out.result]
            /\ UNCHANGED <<dest, clock, linesep, arg>>

\* template delete: delete_template, the user answering the confirmation
Delete(names) ==
    \E name \in names, force \in BOOLEAN, confirmed \in BOOLEAN :
        LET out == DeleteTemplate(store, name, force, confirmed)
        IN  /\ store' = out.store
            /\ captured' = IF out.result.ok /\ out.result.val THEN captured \ {name} ELSE captured
            /\ last' = [op |-> "delete", name |-> name, force |-> force,
                        confirmed |-> confirmed, result |-> out.result]
            /\ UNCHANGED <<dest, clock, linesep, arg>>

\* template use: get_template, then apply_template on the template it returned
Apply(names, project_names, variable_maps) ==
    \E name \in names, project_name \in project_names, variables \in variable_maps :
        LET got == GetTemplate(store, name, clock)
        IN  /\ got.ok /\ got.val # None
            /\ \E order \in Orderings(DOMAIN store[name].structure.files) :
                  LET c == ApplyCall(name, project_name, variables, order)
                      out == ApplyTemplate(store, dest, got.val, c, clock, linesep)
                  IN  /\ dest' = out.dest
                      /\ last' = [op |-> "apply", call |-> c, template |-> got.val, now |-> clock,
                                  resolved |-> out.resolved, result |-> out.result]
            /\ UNCHANGED <<store, clock, linesep, captured, arg>>

\* template list: list_custom_templates
List ==
    /\ last' = [op |-> "list", result |-> ListCustomTemplates(store, clock)]
    /\ UNCHANGED <<store, dest, clock, linesep, captured, arg>>

\* get_template and template_exists on one name
Lookup(names) ==
    \E name \in names :
        /\ last' = [op |-> "get", name |-> name, result |-> GetTemplate(store, name, clock),
                    exists |-> TemplateExists(store, name)]
        /\ UNCHANGED <<store, dest, clock, linesep, captured, arg>>

\* the day ends
Tick ==
    /\ clock = Today
    /\ clock' = Tomorrow
    /\ UNCHANGED <<store, dest, linesep, captured, arg, last>>

---------------------------------------------------------------------------
(* Spec: captures, deletions, lookups and applications from an empty store *)

NameA == <<"a">>
NameB == <<"b", "-", "1">>

AppPy   == <<"app", ".py">>
LogoPng == <<"logo", ".png">>
Notes   == <<"docs", "/", "notes">>

\* the project of the spec's scenario A, a later state of it, and paths that are no directory
ProjectV1 ==
    Source(<<<<"home">>, <<"proj">>>>, "dir",
           (AppPy :> File(<<"a", "{", "{", "project_name", "}", "}", "LF">>, TRUE))
           @@ (LogoPng :> File(<<"NUL", "CR", "LF">>, TRUE)))
ProjectV2 ==
    Source(<<<<"home">>, <<"proj">>>>, "dir",
           (AppPy :> File(<<"{", "{", "date", "}", "}", "{", "{", "b", "}", "}">>, TRUE))
           @@ (Notes :> File(<<"BAD">>, TRUE)))
NoSuchDir == Source(<<<<"home">>, <<"gone">>>>, "missing", EmptyDict)
NotADir   == Source(<<<<"home">>, <<"file">>>>, "file", EmptyDict)

\* every order in which the walk can yield the files the scan of a source reports
CallsOn(source, names) ==
    { CaptureCall(source, n, <<>>, <<>>, {}, TRUE, o) :
        n \in names, o \in Orderings(ScanProjectStructure(source, {}).files) }

SpecCalls ==
    CallsOn(ProjectV1, {NameA, NameB, <<"1">>}) \cup CallsOn(ProjectV2, {NameA})
    \cup CallsOn(NoSuchDir, {NameA}) \cup CallsOn(NotADir, {NameA})

SpecNames == {NameA, NameB}

SpecVariableMaps ==
    { <<>>,
      <<[key |-> <<"date">>, val |-> StrVal(<<"x">>)]>>,
      <<[key |-> <<"b">>, val |-> IntVal(<<"1">>)]>> }

Init ==
    /\ store = EmptyDict
    /\ dest = EmptyDest
    /\ clock = Today
    /\ linesep = <<"LF">>
    /\ captured = {}
    /\ arg = [none |-> TRUE]
    /\ last = [op |-> "none"]

Next ==
    \/ Capture(SpecCalls)
    \/ Delete(SpecNames)
    \/ Apply(SpecNames, {<<"demo">>}, SpecVariableMaps)
    \/ List
    \/ Lookup(SpecNames)
    \/ Tick

Spec == Init /\ [][Next]_vars

\* the names list_custom_templates returns, in its order
ListedNames(listed) == [i \in 1..Len(listed.val) |-> listed.val[i].name]

\* C1 (as claimed): the project_name, date and year that apply resolves are the
\* built-in values, whatever the caller's map holds for these keys.
C1_BuiltinsWin ==
    (last.op = "apply" /\ last.result.ok) =>
        /\ AsDict(last.resolved)[<<"project_name">>] = StrVal(last.call.project_name)
        /\ AsDict(last.resolved)[<<"date">>] = StrVal(last.now.date)
        /\ AsDict(last.resolved)[<<"year">>] = StrVal(last.now.year)

\* C4: an apply whose destination_dir/project_name exists raises the already-exists
\* error and leaves the destination directory and the store as they were.
C4_ApplyConflict ==
    [][(last'.op = "apply" /\ clock' = clock /\ last'.call.project_name \in dest.dirs) =>
          /\ ~last'.result.ok
          /\ last'.result.exc = "ValueError"
          /\ last'.result.detail[1].kind = "Project directory already exists"
          /\ dest' = dest
          /\ store' = store]_vars

\* an apply onto an existing project has been refused, the project holding files
C4_Witness ==
    /\ last.op = "apply"
    /\ ~last.result.ok
    /\ last.result.detail # <<>>
    /\ last.result.detail[1].kind = "Project directory already exists"
    /\ DOMAIN dest.files # {}

\* C6: list_all() holds exactly one template for each name captured successfully and
\* not deleted since, and no other.
C6_OneEntryPerCapturedName ==
    LET listed == ListCustomTemplates(store, clock)
    IN  /\ listed.ok
        /\ \A n \in captured :
              Cardinality({i \in 1..Len(listed.val) : listed.val[i].name = n}) = 1
        /\ \A i \in 1..Len(listed.val) : listed.val[i].name \in captured

\* a name has been captured a second time, from a changed source, beside another template
C6_Witness ==
    /\ last.op = "capture"
    /\ last.result.ok
    /\ last.call.template_name = NameA
    /\ last.call.source = ProjectV2
    /\ LogoPng \in DOMAIN store[NameA].structure.files
    /\ captured = {NameA, NameB}

\* C10: delete on an absent name raises not-found and changes nothing; declined
\* without force it returns false and changes nothing; forced or confirmed it returns
\* true, the name no longer exists nor is listed, and every other template is unchanged.
C10_Delete ==
    [][(last'.op = "delete" /\ clock' = clock) =>
          LET name == last'.name
          IN  /\ name \notin DOMAIN store =>
                    /\ ~last'.result.ok
                    /\ last'.result.exc = "FileNotFoundError"
                    /\ store' = store
              /\ (name \in DOMAIN store /\ ~last'.force /\ ~last'.confirmed) =>
                    /\ last'.result = Ok(FALSE)
                    /\ store' = store
              /\ (name \in DOMAIN store /\ (last'.force \/ last'.confirmed)) =>
                    /\ last'.result = Ok(TRUE)
                    /\ ~TemplateExists(store', name)
                    /\ ListCustomTemplates(store', clock').ok
                    /\ \A i \in 1..Len(ListCustomTemplates(store', clock').val) :
                          ListCustomTemplates(store', clock').val[i].name # name
                    /\ \A other \in (DOMAIN store) \ {name} :
                          other \in DOMAIN store' /\ store'[other] = store[other]
              /\ dest' = dest]_vars

\* a template has been deleted on confirmation, another one staying in the store
C10_Witness ==
    /\ last.op = "delete"
    /\ ~last.force /\ last.confirmed
    /\ last.result = Ok(TRUE)
    /\ last.name = NameA
    /\ DOMAIN store = {NameB}

---------------------------------------------------------------------------
(* SpecApply: apply on templates with every small variable declaration     *)

NameT == <<"t">>

ApplyFirstVars ==
    { [key |-> n, var |-> TemplateVariable(n, ty, <<>>, r, d)] :
        n \in {<<"db_host">>, <<"date">>}, ty \in {"string", "integer", "boolean"},
        r \in BOOLEAN, d \in {None, StrVal(<<"x">>), IntVal(<<"1">>)} }

ApplySecondVars ==
    { [key |-> <<"port">>, var |-> TemplateVariable(<<"port">>, "integer", <<>>, r, d)] :
        r \in BOOLEAN, d \in {None, IntVal(<<"2">>), StrVal(<<"x">>)} }

\* the variable dicts of the enumerated templates, in declaration order
ApplyDeclared ==
    {<<>>} \cup {<<e>> : e \in ApplyFirstVars} \cup {<<e>> : e \in ApplySecondVars}
    \cup {<<e, f>> : e \in ApplyFirstVars, f \in ApplySecondVars}
    \cup {<<f, e>> : e \in {c \in ApplyFirstVars : c.var.required}, f \in ApplySecondVars}

\* a store with one template written by hand: these variables, one stored text file
ApplyStore(declared) ==
    NameT :> TemplateDir(
        Save(TemplateMetadata(
                [version |-> TemplateVersion, name |-> NameT, description |-> <<>>,
                 author |-> <<>>, created_at |-> <<"0", "T", "0">>,
                 prozes_version |-> <<"1", ".", "0", ".", "0">>,
                 variables |-> declared, dependencies |-> EmptyDict,
                 variable_substitution |-> EmptyDict, file_patterns |-> EmptyDict], Today)),
        TRUE,
        <<"{", "{", "db_host", "}", "}", ".txt">>
            :> File(<<"{", "{", "date", "}", "}", "{", "{", "port", "}", "}">>, TRUE))

\* a destination directory in which demo/ exists
DemoExists == [dirs |-> {<<"demo">>}, files |-> (<<"demo", "/", "old">> :> File(<<"a">>, TRUE))]

ApplyVariableMaps ==
    { <<>>,
      <<[key |-> <<"db_host">>, val |-> StrVal(<<"a">>)]>>,
      <<[key |-> <<"db_host">>, val |-> IntVal(<<"2">>)]>>,
      <<[key |-> <<"db_host">>, val |-> BoolVal(TRUE)]>>,
      <<[key |-> <<"db_host">>, val |-> None]>>,
      <<[key |-> <<"port">>, val |-> IntVal(<<"1">>)]>>,
      <<[key |-> <<"port">>, val |-> StrVal(<<"a">>)], [key |-> <<"db_host">>, val |-> StrVal(<<"a">>)]>>,
      <<[key |-> <<"db_host">>, val |-> IntVal(<<"2">>)], [key |-> <<"port">>, val |-> IntVal(<<"1">>)]>>,
      <<[key |-> <<"date">>, val |-> StrVal(<<"x">>)], [key |-> <<"port">>, val |-> IntVal(<<"1">>)]>> }

InitApply ==
    /\ store \in {ApplyStore(declared) : declared \in ApplyDeclared}
    /\ dest \in {EmptyDest, DemoExists}
    /\ clock = Today
    /\ linesep = <<"LF">>
    /\ captured = {}
    /\ arg = [none |-> TRUE]
    /\ last = [op |-> "none"]

NextApply ==
    \/ last.op = "none" /\ Apply({NameT}, {<<"demo">>}, ApplyVariableMaps)
    \/ last.op = "none" /\ Lookup({NameT})

SpecApply == InitApply /\ [][NextApply]_vars

\* a value of exactly the declared kind
TypeCorrect(type, value) ==
    \/ type = "string" /\ value.k = "str"
    \/ type = "integer" /\ value.k = "int"
    \/ type = "boolean" /\ value.k = "bool"

\* the apply raised an error that names this variable
ErrorAbout(result, var_name) ==
    /\ ~result.ok
    /\ result.detail # <<>>
    /\ result.detail[1].kind # "Project directory already exists"
    /\ result.detail[1].var = var_name

\* the apply raised before it reached this declared variable: the destination exists,
\* or the error names a variable declared earlier
RaisedBefore(result, declared, i) ==
    /\ ~result.ok
    /\ result.detail # <<>>
    /\ \/ result.detail[1].kind = "Project directory already exists"
       \/ \E j \in 1..(i - 1) : result.detail[1].var = declared[j].key

\* C2: an apply that leaves out a declared variable with required=true and
\* default=null that is no built-in fails, with the missing-required-variable error for
\* it unless an earlier check has already failed; the apply that supplies a value of
\* the declared type does not fail on that variable.
C2_RequiredGate ==
    last.op = "apply" =>
        LET declared == last.template.metadata.variables
            supplied == AsDict(last.call.variables)
        IN  \A i \in 1..Len(declared) :
                (/\ declared[i].var.required
                 /\ declared[i].var.default = None
                 /\ declared[i].key \notin BuiltinNames) =>
                    /\ declared[i].key \notin DOMAIN supplied =>
                          /\ ~last.result.ok
                          /\ \/ RaisedBefore(last.result, declared, i)
                             \/ last.result.detail =
                                  <<[kind |-> "Required variable is missing", var |-> declared[i].key]>>
                    /\ (/\ declared[i].key \in DOMAIN supplied
                        /\ TypeCorrect(declared[i].var.type, supplied[declared[i].key])) =>
                          ~ErrorAbout(last.result, declared[i].key)

\* the required db_host was left out and the apply raised the missing-variable error
C2_Witness ==
    /\ last.op = "apply"
    /\ last.call.variables = <<[key |-> <<"port">>, val |-> IntVal(<<"1">>)]>>
    /\ Len(last.template.metadata.variables) = 2
    /\ last.template.metadata.variables[2] =
          [key |-> <<"db_host">>, var |-> TemplateVariable(<<"db_host">>, "integer", <<>>, TRUE, None)]
    /\ ~last.result.ok
    /\ last.result.detail = <<[kind |-> "Required variable is missing", var |-> <<"db_host">>]>>
    /\ dest = EmptyDest

\* C3 (as claimed): an apply that leaves out a declared required variable that is no
\* built-in fails, whether or not the variable declares a default.
C3_RequiredOverridesDefault ==
    last.op = "apply" =>
        \A i \in 1..Len(last.template.metadata.variables) :
            LET e == last.template.metadata.variables[i]
            IN  (e.var.required /\ e.key \notin BuiltinNames /\ e.key \notin Keys(last.call.variables))
                    => ~last.result.ok

\* C3 (amended): such an apply fails when the variable declares no default; when it
\* declares one, the default is the resolved value, no missing-required error is
\* raised for the variable, and a default of the declared type raises no error for it.
C3_RequiredUsesDefault ==
    last.op = "apply" =>
        \A i \in 1..Len(last.template.metadata.variables) :
            LET e == last.template.metadata.variables[i]
            IN  (e.var.required /\ e.key \notin BuiltinNames /\ e.key \notin Keys(last.call.variables))
                    => /\ e.var.default = None => ~last.result.ok
                       /\ e.var.default # None =>
                            /\ \/ /\ ~last.result.ok
                                  /\ last.result.detail # <<>>
                                  /\ last.result.detail[1].kind = "Project directory already exists"
                               \/ /\ e.key \in Keys(last.resolved)
                                  /\ AsDict(last.resolved)[e.key] = e.var.default
                            /\ last.result.ok \/ last.result.detail #
                                  <<[kind |-> "Required variable is missing", var |-> e.key]>>
                            /\ TypeCorrect(e.var.type, e.var.default) =>
                                  ~ErrorAbout(last.result, e.key)

\* a required db_host with the default "x" was left out and the apply succeeded, the
\* default ending up in the file name
C3_Witness ==
    /\ last.op = "apply"
    /\ last.call.variables = <<>>
    /\ last.template.metadata.variables =
          <<[key |-> <<"db_host">>, var |-> TemplateVariable(<<"db_host">>, "string", <<>>, TRUE, StrVal(<<"x">>))]>>
    /\ last.result.ok
    /\ <<"demo", "/", "x", ".txt">> \in DOMAIN dest.files

---------------------------------------------------------------------------
(* SpecCorrupt: lookups on a store root with well-formed and corrupt entries *)

\* template.json with this JSON document in it
JsonFile(doc) == [kind |-> "file", doc |-> doc]

WellFormedMetadata(name) ==
    TemplateMetadata(
        [version |-> TemplateVersion, name |-> name, description |-> <<>>, author |-> <<>>,
         created_at |-> <<"0", "T", "0">>, prozes_version |-> <<"1", ".", "0", ".", "0">>,
         variables |-> <<[key |-> <<"project_name">>,
                          var |-> TemplateVariable(<<"project_name">>, "string", <<>>, TRUE, None)]>>,
         dependencies |-> EmptyDict, variable_substitution |-> EmptyDict,
         file_patterns |-> EmptyDict], Today)

\* what a subdirectory of the store root can hold: a well-formed template; no
\* template.json; no structure/; template.json a directory, not UTF-8, not JSON, a JSON
\* array, with 'variables' an array, with a variable that is a string, with an empty
\* name, with an empty name and an empty version
DirContents(name) ==
    { TemplateDir(Save(WellFormedMetadata(name)), TRUE, AppPy :> File(<<"a">>, TRUE)),
      TemplateDir(NoFile, TRUE, EmptyDict),
      TemplateDir(Save(WellFormedMetadata(name)), FALSE, EmptyDict),
      TemplateDir(DirInsteadOfFile, TRUE, EmptyDict),
      TemplateDir(JsonFile([kind |-> "notutf8"]), TRUE, EmptyDict),
      TemplateDir(JsonFile([kind |-> "garbage"]), TRUE, EmptyDict),
      TemplateDir(JsonFile([kind |-> "array"]), TRUE, EmptyDict),
      TemplateDir(JsonFile([kind |-> "object",
                            fields |-> ("name" :> name) @@ ("variables" :> [kind |-> "array"])]),
                  TRUE, EmptyDict),
      TemplateDir(JsonFile([kind |-> "object",
                            fields |-> ("name" :> name) @@
                                ("variables" :> [kind |-> "object",
                                                 items |-> <<[key |-> <<"x">>, data |-> [kind |-> "string"]]>>])]),
                  TRUE, EmptyDict),
      TemplateDir(Save(WellFormedMetadata(<<>>)), TRUE, EmptyDict),
      TemplateDir(Save([WellFormedMetadata(<<>>) EXCEPT !.version = <<>>]), TRUE, EmptyDict) }

InitCorrupt ==
    /\ \E present \in SUBSET {NameA, NameB} :
          store \in {s \in [present -> DirContents(NameA) \cup DirContents(NameB)] :
                        \A n \in present : s[n] \in DirContents(n)}
    /\ dest = EmptyDest
    /\ clock = Today
    /\ linesep = <<"LF">>
    /\ captured = {}
    /\ arg = [none |-> TRUE]
    /\ last = [op |-> "none"]

\* Template.load on one name
LoadByName(names) ==
    \E name \in names :
        /\ last' = [op |-> "load", name |-> name, result |-> Load(store, name, clock)]
        /\ UNCHANGED <<store, dest, clock, linesep, captured, arg>>

NextCorrupt ==
    \/ List
    \/ Lookup({NameA, NameB})
    \/ LoadByName({NameA, NameB})

SpecCorrupt == InitCorrupt /\ [][NextCorrupt]_vars

\* C5 (as claimed): whatever the store root holds, list_all() returns exactly the
\* templates that load, and get(name) returns null for every name whose load fails;
\* neither raises.
C5_LookupsNeverRaise ==
    /\ last.op = "list" =>
          /\ last.result.ok
          /\ {last.result.val[i].name : i \in 1..Len(last.result.val)}
                = {n \in DOMAIN store : Load(store, n, clock).ok}
    /\ last.op = "get" =>
          /\ last.result.ok
          /\ ~Load(store, last.name, clock).ok => last.result.val = None

\* C11 (as claimed): load(name) raises not-found when the named directory is absent;
\* otherwise a structural error when template.json or structure/ is missing or when
\* validate() reports violations, the error then carrying every one of them; otherwise
\* it returns the Template of that name.
C11_LoadOutcomes ==
    last.op = "load" =>
        LET r == last.result
            structural == ~r.ok /\ r.exc = "ValueError"
        IN  IF last.name \notin DOMAIN store THEN ~r.ok /\ r.exc = "FileNotFoundError"
            ELSE IF store[last.name].json.kind = "missing" THEN structural
            ELSE IF ~store[last.name].structure.exists THEN structural
            ELSE LET parsed == FromJson(store[last.name].json, clock)
                 IN  IF parsed.ok /\ Validate(parsed.val) # <<>>
                     THEN structural /\ r.detail = Validate(parsed.val)
                     ELSE r.ok /\ r.val.name = last.name

---------------------------------------------------------------------------
(* SpecFidelity: one capture of a small project and one apply of it        *)

FidelityTexts == TextsUpTo({"a", "CR", "LF"}, 3)

FidelitySources ==
    { Source(<<<<"home">>, <<"proj">>>>, "dir",
             (AppPy :> File(text, TRUE)) @@ (LogoPng :> File(image, TRUE))
             @@ (<<"data">> :> File(<<"a", "NUL", "CR">>, TRUE))) :
        text \in FidelityTexts, image \in {<<"NUL", "CR", "LF">>, <<"BAD", "LF", "a">>} }

InitFidelity ==
    /\ store = EmptyDict
    /\ dest = EmptyDest
    /\ clock = Today
    /\ linesep \in {<<"LF">>, <<"CR", "LF">>}
    /\ captured = {}
    /\ arg \in [source : FidelitySources]
    /\ last = [op |-> "none"]

NextFidelity ==
    \/ last.op = "none" /\ Capture(CallsOn(arg.source, {NameA}))
    \/ last.op = "capture" /\ Apply({NameA}, {<<"demo">>}, {<<>>})

SpecFidelity == InitFidelity /\ [][NextFidelity]_vars

\* C8 (as claimed): of the captured and then applied source files, a binary one is
\* byte-identical under structure/ and in the new project, and a text one without
\* tokens has the source's content in both, line endings included.
C8_ContentFidelity ==
    (last.op = "apply" /\ last.result.ok) =>
        \A p \in DOMAIN arg.source.tree :
            LET source_file == arg.source.tree[p]
                type == DetectFileType(p, source_file)
                keeps == \/ type = "binary"
                         \/ /\ type = "text"
                            /\ ReadText(source_file).ok
                            /\ DetectVariablesInFile(ReadText(source_file).val) = {}
            IN  (keeps /\ p \in DOMAIN store[NameA].structure.files) =>
                    /\ store[NameA].structure.files[p].bytes = source_file.bytes
                    /\ JoinPath(<<"demo">>, p) \in DOMAIN dest.files
                    /\ dest.files[JoinPath(<<"demo">>, p)].bytes = source_file.bytes

---------------------------------------------------------------------------
(* SpecValidate: validate_value of every small variable on every small value *)

ValidateVars ==
    { TemplateVariable(name, type, <<>>, required, default) :
        name \in {<<"db_host">>, <<"port">>},
        type \in {"string", "integer", "boolean", "float"},
        required \in BOOLEAN,
        default \in {None, StrVal(<<"a">>)} }

ValidateValues ==
    { None, StrVal(<<>>), StrVal(<<"1">>), IntVal(<<"1">>), IntVal(<<"2">>),
      BoolVal(TRUE), BoolVal(FALSE) }

InitValidate ==
    /\ store = EmptyDict
    /\ dest = EmptyDest
    /\ clock = Today
    /\ linesep = <<"LF">>
    /\ captured = {}
    /\ arg \in [var : ValidateVars, value : ValidateValues]
    /\ last = [op |-> "none"]

\* var.validate_value(value)
ValidateOne ==
    /\ last.op = "none"
    /\ last' = [op |-> "validate_value", result |-> ValidateValue(arg.var, arg.value)]
    /\ UNCHANGED <<store, dest, clock, linesep, captured, arg>>

NextValidate == ValidateOne

SpecValidate == InitValidate /\ [][NextValidate]_vars

\* the kind of value a declared type stands for
DeclaredKind(type) ==
    CASE type = "string" -> "str" [] type = "integer" -> "int" [] type = "boolean" -> "bool"

\* C12 (as claimed): for a variable declared string, integer or boolean, validate_value
\* accepts a present value iff it is of exactly the declared kind (a boolean is no
\* integer), and accepts an absent value iff the variable is not required.
C12_ValidateValueExactKind ==
    (last.op = "validate_value" /\ arg.var.type \in {"string", "integer", "boolean"}) =>
        IF arg.value = None
        THEN last.result.valid <=> ~arg.var.required
        ELSE last.result.valid <=> arg.value.k = DeclaredKind(arg.var.type)

---------------------------------------------------------------------------
(* SpecScan: scan_project_structure on every small project                 *)

DataFile  == <<"data">>
VenvLib   == <<"venv", "/", "lib", ".py">>
EggData   == <<"x", ".egg-info", "/", "data">>
SubApp    == <<"x", "/", "app", ".py">>

\* what can be at each path of a scanned project
ScanContents(p) ==
    IF p = DataFile
    THEN {File(<<"a">>, TRUE), File(<<"a">>, FALSE), File(<<"NUL">>, TRUE)}
    ELSE IF p = LogoPng THEN {File(<<"NUL", "a">>, TRUE)}
    ELSE {File(<<"{", "{", "a", "}", "}">>, TRUE)}

ScanPaths == {AppPy, LogoPng, DataFile, VenvLib, EggData, SubApp}

ScanTrees ==
    UNION { {t \in [present -> UNION {ScanContents(p) : p \in present}] :
                \A p \in present : t[p] \in ScanContents(p)} :
            present \in SUBSET ScanPaths }

\* the project directory, under a directory named like an excluded one or not
ScanSources ==
    { Source(at, "dir", tree) :
        at \in {<<<<"home">>, <<"proj">>>>, <<<<"home">>, <<"build">>, <<"proj">>>>},
        tree \in ScanTrees }

InitScan ==
    /\ store = EmptyDict
    /\ dest = EmptyDest
    /\ clock = Today
    /\ linesep = <<"LF">>
    /\ captured = {}
    /\ arg \in [source : ScanSources, exclude_patterns : {{}, {<<"x">>}}]
    /\ last = [op |-> "none"]

\* scan_project_structure(source_path, exclude_patterns)
Scan ==
    /\ last.op = "none"
    /\ last' = [op |-> "scan", result |-> ScanProjectStructure(arg.source, arg.exclude_patterns)]
    /\ UNCHANGED <<store, dest, clock, linesep, captured, arg>>

NextScan == Scan

SpecScan == InitScan /\ [][NextScan]_vars

\* C13 (as claimed): a scan result's files holds no file classified skip; it is the
\* disjoint union of text_files and binary_files, and total_files counts both.
C13_ScanPartition ==
    last.op = "scan" =>
        LET r == last.result
        IN  /\ \A p \in r.files : DetectFileType(p, arg.source.tree[p]) # "skip"
            /\ r.files = r.text_files \cup r.binary_files
            /\ r.text_files \cap r.binary_files = {}
            /\ r.total_files = Cardinality(r.text_files) + Cardinality(r.binary_files)

\* C14 (as claimed): the scan reports a file iff no component of its path below the
\* source directory equals an entry of the default exclusions or of the extra ones,
\* whatever the directories that contain the source directory are called.
C14_ScanExclusion ==
    last.op = "scan" =>
        last.result.files =
            {p \in DOMAIN arg.source.tree :
                \A c \in SeqRange(SplitPath(p)) :
                    c \notin DefaultExcludeDirs \cup arg.exclude_patterns}

---------------------------------------------------------------------------
(* SpecCapture: one capture call on a store that is empty or holds an      *)
(* earlier capture                                                         *)

DocsFile == <<"docs">>

\* what can be at each path of a captured project: a readable text with tokens, a text
\* that is no UTF-8, a file the process cannot read
CaptureContents(p) ==
    IF p = AppPy
    THEN {File(<<"{", "{", "a", "}", "}", "{", "{", "project_name", "}", "}">>, TRUE),
          File(<<"BAD", "{", "{", "b", "}", "}">>, TRUE),
          File(<<"{", "{", "b", "}", "}">>, FALSE)}
    ELSE IF p = LogoPng
    THEN {File(<<"NUL", "{", "{", "x", "}", "}">>, TRUE), File(<<"NUL">>, FALSE)}
    ELSE {File(<<"{", "{", "author", "}", "}", "{", "{", "b", "}", "}">>, TRUE)}

CaptureTrees ==
    UNION { {t \in [present -> UNION {CaptureContents(p) : p \in present}] :
                \A p \in present : t[p] \in CaptureContents(p)} :
            present \in SUBSET {AppPy, LogoPng, Notes} }

CaptureSources ==
    {Source(<<<<"home">>, <<"proj">>>>, "dir", tree) : tree \in CaptureTrees}
    \cup {NoSuchDir, NotADir}

CaptureCalls ==
    { CaptureCall(source, name, <<>>, <<>>, {}, detect, order) :
        source \in CaptureSources, name \in {NameA, <<"1">>, <<>>}, detect \in BOOLEAN,
        order \in UNION {Orderings(ScanProjectStructure(s, {}).files) : s \in CaptureSources} }

\* the store after an earlier capture, under the name a, of a project that had a
\* file where the project now has the directory docs
PriorStore ==
    CreateTemplateFromDirectory(
        EmptyDict,
        CaptureCall(Source(<<<<"home">>, <<"proj">>>>, "dir", DocsFile :> File(<<"a">>, TRUE)),
                    NameA, <<>>, <<>>, {}, TRUE, <<DocsFile>>),
        Today, <<"LF">>).store

InitCapture ==
    /\ store \in {EmptyDict, PriorStore}
    /\ dest = EmptyDest
    /\ clock = Today
    /\ linesep = <<"LF">>
    /\ captured = {}
    /\ arg \in [call : {c \in CaptureCalls :
                          c.order \in Orderings(ScanProjectStructure(c.source, {}).files)}]
    /\ last = [op |-> "none"]

NextCapture == last.op = "none" /\ Capture({arg.call})

SpecCapture == InitCapture /\ [][NextCapture]_vars

\* C15: the template capture returns declares project_name (string, required, no
\* default) and author (string, optional, default "Anonymous"); with detection on it
\* declares besides exactly one optional string variable without default for each
\* other token name found in the scanned text files, with detection off nothing more.
C15_CaptureVariableSet ==
    (last.op = "capture" /\ last.result.ok) =>
        LET c == last.call
            vs == last.result.val.metadata.variables
            texts == {p \in ScanProjectStructure(c.source, c.exclude_patterns).text_files :
                         ReadText(c.source.tree[p]).ok}
            found == UNION {DetectVariablesInFile(ReadText(c.source.tree[p]).val) : p \in texts}
            names == {<<"project_name">>, <<"author">>}
                        \cup (IF c.detect_variables THEN found ELSE {})
        IN  /\ {vs[i].key : i \in 1..Len(vs)} = names
            /\ Len(vs) = Cardinality(names)
            /\ \A i \in 1..Len(vs) :
                  /\ vs[i].var.name = vs[i].key
                  /\ vs[i].var.type = "string"
                  /\ vs[i].var.required = (vs[i].key = <<"project_name">>)
                  /\ vs[i].var.default =
                        IF vs[i].key = <<"author">> THEN StrVal(<<"Anonymous">>) ELSE None

\* a capture with detection on of a project whose text files hold the tokens a,
\* project_name, author and b has returned a template with four variables
C15_Witness ==
    /\ last.op = "capture" /\ last.result.ok
    /\ last.call.detect_variables
    /\ AppPy \in DOMAIN last.call.source.tree /\ Notes \in DOMAIN last.call.source.tree
    /\ Len(last.result.val.metadata.variables) = 4


\* the scanned file can be read, decoded if it is text, and nothing in structure/ is
\* in the way of it or of its parent directories
CanBeStored(before, c, p) ==
    /\ c.source.tree[p].readable
    /\ (p \in ScanProjectStructure(c.source, c.exclude_patterns).text_files
            => Decodes(c.source.tree[p].bytes))
    /\ ~IsDirIn(before, p)
    /\ ~\E q \in DOMAIN before : IsPathPrefix(q, p)

\* C17 (as claimed): when the preconditions hold, capture returns a Template whatever
\* files cannot be read, decoded, copied or given a parent directory under structure/;
\* every scanned file that can be stored is stored.
C17_CaptureToleratesFileFailures ==
    [][(last.op = "none" /\ last'.op = "capture" /\ CapturePreconditions(last'.call).ok) =>
          LET c == last'.call
              before == IF c.template_name \in DOMAIN store
                        THEN store[c.template_name].structure.files ELSE EmptyDict
          IN  /\ last'.result.ok
              /\ \A p \in ScanProjectStructure(c.source, c.exclude_patterns).files :
                    CanBeStored(before, c, p) =>
                        p \in DOMAIN store'[c.template_name].structure.files]_vars

\* C20: capture checks that the source exists (else not-found), then that it is a
\* directory, then that the template name is valid; the first check that fails gives
\* the error, and then the store is left as it was.
C20_CapturePreconditions ==
    [][(last.op = "none" /\ last'.op = "capture") =>
          LET c == last'.call
              r == last'.result
              named == ValidateTemplateName(c.template_name)
          IN  /\ c.source.kind = "missing" =>
                    ~r.ok /\ r.exc = "FileNotFoundError" /\ store' = store
              /\ c.source.kind = "file" =>
                    /\ ~r.ok /\ r.exc = "ValueError"
                    /\ r.detail = <<[kind |-> "Source path is not a directory"]>>
                    /\ store' = store
              /\ (c.source.kind = "dir" /\ ~named.valid) =>
                    /\ ~r.ok /\ r.exc = "ValueError"
                    /\ r.detail = <<[kind |-> named.error]>>
                    /\ store' = store
              /\ (c.source.kind = "dir" /\ named.valid) =>
                    c.template_name \in DOMAIN store']_vars

\* a capture of a missing source under an invalid name has raised not-found, and one
\* of a file under an invalid name has raised not-a-directory
C20_Witness ==
    /\ last.op = "capture"
    /\ last.call.source.kind = "missing"
    /\ ~ValidateTemplateName(last.call.template_name).valid
    /\ ~last.result.ok /\ last.result.exc = "FileNotFoundError"

---------------------------------------------------------------------------
(* SpecClassify: detect_file_type on every small file under every kind of name *)

ClassifyPaths ==
    {AppPy, <<"app", ".PY">>, LogoPng, DataFile, Notes, <<".env">>, <<".gitignore">>,
     <<"x", ".env">>, <<"a", ".dat">>, <<"lib", ".tar", ".gz">>}

ClassifyFiles ==
    {File(bytes, readable) : bytes \in TextsUpTo({"a", "NUL", "BAD"}, 2), readable \in BOOLEAN}

InitClassify ==
    /\ store = EmptyDict
    /\ dest = EmptyDest
    /\ clock = Today
    /\ linesep = <<"LF">>
    /\ captured = {}
    /\ arg \in [path : ClassifyPaths, file : ClassifyFiles]
    /\ last = [op |-> "none"]

\* detect_file_type(file_path)
Classify ==
    /\ last.op = "none"
    /\ last' = [op |-> "detect_file_type", result |-> DetectFileType(arg.path, arg.file)]
    /\ UNCHANGED <<store, dest, clock, linesep, captured, arg>>

NextClassify == Classify

SpecClassify == InitClassify /\ [][NextClassify]_vars

\* C16 (as claimed): the first rule that matches decides. text for an extension of the
\* text allow-list and for the files named .env and .gitignore, whatever the content
\* and readable or not; else binary for an extension of the binary list; else skip when
\* the file cannot be read, binary when its first 8 KiB hold a null byte or are no
\* UTF-8, text otherwise.
C16_ClassifierOrder ==
    last.op = "detect_file_type" =>
        LET extension == Lower(Suffix(arg.path))
            prefix == SubSeq(arg.file.bytes, 1,
                             IF Len(arg.file.bytes) < ChunkSize THEN Len(arg.file.bytes) ELSE ChunkSize)
        IN  last.result =
                IF extension \in DefaultTextExtensions
                   \/ BaseName(arg.path) \in {<<".env">>, <<".gitignore">>}
                THEN "text"
                ELSE IF extension \in BinaryExtensions THEN "binary"
                ELSE IF ~arg.file.readable THEN "skip"
                ELSE IF \E i \in 1..Len(prefix) : prefix[i] = "NUL" THEN "binary"
                ELSE IF Decodes(prefix) THEN "text"
                ELSE "binary"

---------------------------------------------------------------------------
(* SpecFallback: one apply of a template whose stored text files may be    *)
(* undecodable or unreadable                                               *)

BadTxt   == <<"bad", ".txt">>
NamedTxt == <<"{", "{", "project_name", "}", "}", ".txt">>

\* what can be at each stored path: a text that is no UTF-8, a text with a token and
\* a CRLF, a file the process cannot read
FallbackContents ==
    {File(<<"BAD", "{", "{", "project_name", "}", "}">>, TRUE),
     File(<<"{", "{", "project_name", "}", "}", "CR", "LF">>, TRUE),
     File(<<"a">>, FALSE)}

FallbackStores ==
    { NameA :> TemplateDir(Save(WellFormedMetadata(NameA)), TRUE, files) :
        files \in UNION {[present -> FallbackContents] :
                            present \in SUBSET {BadTxt, NamedTxt, DataFile}} }

InitFallback ==
    /\ store \in FallbackStores
    /\ dest = EmptyDest
    /\ clock = Today
    /\ linesep = <<"LF">>
    /\ captured = {}
    /\ arg = [none |-> TRUE]
    /\ last = [op |-> "none"]

NextFallback == last.op = "none" /\ Apply({NameA}, {<<"demo">>}, {<<>>})

SpecFallback == InitFallback /\ [][NextFallback]_vars

\* C18 (as claimed): when a stored file classified text cannot be read or decoded,
\* apply puts a byte-for-byte copy of it at the substituted destination path, goes on
\* with the other files and returns the project path.
C18_ApplyTextFallback ==
    last.op = "apply" =>
        LET files == store[NameA].structure.files
            target(p) == JoinPath(<<"demo">>, SubstituteInPath(p, last.resolved))
            failing == {p \in DOMAIN files :
                           /\ DetectFileType(p, files[p]) = "text"
                           /\ ~ReadText(files[p]).ok}
        IN  (failing # {} /\ \A p \in (DOMAIN files) \ failing : files[p].readable) =>
                /\ last.result.ok /\ last.result.val = <<"demo">>
                /\ \A p \in failing :
                      /\ target(p) \in DOMAIN dest.files
                      /\ dest.files[target(p)].bytes = files[p].bytes
                /\ \A p \in DOMAIN files : target(p) \in DOMAIN dest.files

---------------------------------------------------------------------------
(* SpecName: validate_template_name, and capture, on every short name      *)

NameAlphabet == {"a", "1", "-", "_", ".", "/", "LF"}

InitName ==
    /\ store = EmptyDict
    /\ dest = EmptyDest
    /\ clock = Today
    /\ linesep = <<"LF">>
    /\ captured = {}
    /\ arg \in [name : TextsUpTo(NameAlphabet, 3)]
    /\ last = [op |-> "none"]

\* validate_template_name(name)
ValidateName ==
    /\ last.op = "none"
    /\ last' = [op |-> "validate_template_name", result |-> ValidateTemplateName(arg.name)]
    /\ UNCHANGED <<store, dest, clock, linesep, captured, arg>>

NextName ==
    \/ ValidateName
    \/ last.op = "none" /\ Capture(CallsOn(ProjectV1, {arg.name}))

SpecName == InitName /\ [][NextName]_vars

\* C19 (as claimed): validate_template_name accepts a name iff it is not empty, starts
\* with an ASCII letter or underscore and goes on with ASCII letters, digits,
\* underscores and hyphens only, so never a separator, a dot or a newline; capture
\* rejects every other name with an invalid-name error.
C19_TemplateNameSyntax ==
    LET wellformed ==
            /\ arg.name # <<>>
            /\ arg.name[1] \in {"a", "_"}
            /\ \A i \in 2..Len(arg.name) : arg.name[i] \in {"a", "1", "_", "-"}
    IN  /\ last.op = "validate_template_name" => (last.result.valid <=> wellformed)
        /\ (last.op = "capture" /\ ~wellformed) =>
              /\ ~last.result.ok /\ last.result.exc = "ValueError"
              /\ store = EmptyDict

---------------------------------------------------------------------------
(* Properties of the store over the calls of Spec                          *)

\* the created_at that a load at the time now reads for the template name
CreatedAt(st, name, now) == Load(st, name, now).val.metadata.created_at

\* C21 (as claimed): created_at is write-once. Loading never stamps it, whenever the
\* load happens, and while the template name stays in the store no operation, a second
\* capture under the name included, changes it.
C21_CreatedAtWriteOnce ==
    [][\A name \in DOMAIN store :
          Load(store, name, clock).ok =>
              /\ CreatedAt(store, name, Today) = CreatedAt(store, name, Tomorrow)
              /\ (name \in DOMAIN store' /\ Load(store', name, clock').ok) =>
                    CreatedAt(store', name, clock') = CreatedAt(store, name, clock)]_vars


\* C22 (as claimed): after a successful capture under a name, the relative paths under
\* the template's structure/ are those the capture's scan reported, less the files
\* whose copy failed, whatever an earlier capture under the name had stored.
C22_StoredTreeIsScannedTree ==
    [][(last'.op = "capture" /\ clock' = clock /\ last'.result.ok) =>
          LET c == last'.call
              before == IF c.template_name \in DOMAIN store
                        THEN store[c.template_name].structure.files ELSE EmptyDict
              scanned == ScanProjectStructure(c.source, c.exclude_patterns).files
          IN  DOMAIN store'[c.template_name].structure.files
                  = {p \in scanned : CanBeStored(before, c, p)}]_vars

---------------------------------------------------------------------------
(* SpecPath: the substitution apply makes in a path and the one it makes   *)
(* in content, on the same string and variables                            *)

\* the pieces a path string is made of: tokens of a, of b and of a name that is no
\* identifier, a letter, a separator
PathPieces ==
    {<<"{", "{", "a", "}", "}">>, <<"{", "{", "b", "}", "}">>, <<"{", "{", "-", "}", "}">>,
     <<"x">>, <<"/">>}

PathStrings ==
    {<<>>} \cup PathPieces \cup {p \o q : p, q \in PathPieces}
    \cup {p \o q \o r : p, q, r \in PathPieces}

PathKeys == {<<"a">>, <<"b">>, <<"-">>}

PathValues == {StrVal(<<"x">>), StrVal(<<"{", "{", "b", "}", "}">>), IntVal(<<"1">>)}

\* resolved variables in their insertion order: none, one, or two of different names
PathMaps ==
    {<<>>} \cup {<<[key |-> k, val |-> v]>> : k \in PathKeys, v \in PathValues}
    \cup {m \in {<<[key |-> k, val |-> v], [key |-> l, val |-> w]>> :
                      k \in PathKeys, l \in PathKeys, v \in PathValues, w \in PathValues} :
                m[1].key # m[2].key}

InitPath ==
    /\ store = EmptyDict
    /\ dest = EmptyDest
    /\ clock = Today
    /\ linesep = <<"LF">>
    /\ captured = {}
    /\ arg \in [s : PathStrings, all_variables : PathMaps]
    /\ last = [op |-> "none"]

\* the path loop of apply_template and substitute_variables, on the same input
SubstituteBoth ==
    /\ last.op = "none"
    /\ last' = [op |-> "substitute",
                in_path |-> SubstituteInPath(arg.s, arg.all_variables),
                in_content |-> SubstituteVariables(arg.s, AsDict(arg.all_variables))]
    /\ UNCHANGED <<store, dest, clock, linesep, captured, arg>>

NextPath == SubstituteBoth

SpecPath == InitPath /\ [][NextPath]_vars

\* C23 (as claimed): on every string and every resolved variable map, the substitution
\* apply makes in a relative path gives what substitute_variables gives on content,
\* also when a value holds the token of another variable or a key is no identifier.
C23_PathAndContentAgree ==
    last.op = "substitute" => last.in_path = last.in_content

---------------------------------------------------------------------------
(* SpecSteps: one capture call, statement by statement                     *)

\* the metadata capture constructs for the call c at the time now
CaptureMetadata(c, now) ==
    LET scan == ScanProjectStructure(c.source, c.exclude_patterns)
    IN  TemplateMetadata(
            [version |-> TemplateVersion, name |-> c.template_name,
             description |-> c.description, author |-> c.author,
             created_at |-> <<>>, prozes_version |-> <<"1", ".", "0", ".", "0">>,
             variables |-> CaptureVariables(scan, c.detect_variables),
             dependencies |-> ExtractDependencies(c.source),
             variable_substitution |-> EmptyDict,
             file_patterns |-> EmptyDict], now)

\* capture up to the copy loop: the checks, the two mkdir, the scan, the variables,
\* the dependencies and the construction of the metadata
CaptureStart(calls) ==
    /\ last.op = "none"
    /\ \E c \in calls :
          IF ~CapturePreconditions(c).ok
          THEN /\ last' = [op |-> "capture", pc |-> "done", call |-> c,
                           result |-> CapturePreconditions(c)]
               /\ UNCHANGED store
          ELSE LET name == c.template_name
                   before == IF name \in DOMAIN store THEN store[name]
                             ELSE TemplateDir(NoFile, FALSE, EmptyDict)
               IN  /\ store' = Update(store, name :> TemplateDir(before.json, TRUE,
                                                                 before.structure.files))
                   /\ last' = [op |-> "capture", pc |-> "copy", call |-> c,
                               metadata |-> CaptureMetadata(c, clock), remaining |-> c.order]
    /\ UNCHANGED <<dest, clock, linesep, captured, arg>>

\* one turn of the copy loop
CaptureCopy ==
    /\ last.op = "capture" /\ last.pc = "copy" /\ last.remaining # <<>>
    /\ LET c == last.call
           name == c.template_name
           one == CopyOneFile(store[name].structure.files, c.source,
                              ScanProjectStructure(c.source, c.exclude_patterns),
                              Head(last.remaining), linesep)
       IN  /\ store' = [store EXCEPT ![name].structure.files = one.files]
           /\ last' = IF one.exc # "none"
                      THEN [op |-> "capture", pc |-> "done", call |-> c, result |-> Raise(one.exc)]
                      ELSE [last EXCEPT !.remaining = Tail(@)]
    /\ UNCHANGED <<dest, clock, linesep, captured, arg>>

\* after the loop: metadata.save, then Template.load of what was written
CaptureSave ==
    /\ last.op = "capture" /\ last.pc = "copy" /\ last.remaining = <<>>
    /\ LET c == last.call
           name == c.template_name
           saved == [store EXCEPT ![name].json = Save(last.metadata)]
       IN  IF store[name].json.kind = "dir"
           THEN /\ last' = [op |-> "capture", pc |-> "done", call |-> c,
                            result |-> Raise("IsADirectoryError")]
                /\ UNCHANGED store
           ELSE /\ store' = saved
                /\ last' = [op |-> "capture", pc |-> "done", call |-> c,
                            result |-> Load(saved, name, clock)]
    /\ UNCHANGED <<dest, clock, linesep, captured, arg>>

InitSteps ==
    /\ store \in {EmptyDict, PriorStore}
    /\ dest = EmptyDest
    /\ clock = Today
    /\ linesep = <<"LF">>
    /\ captured = {}
    /\ arg = [store |-> store]
    /\ last = [op |-> "none"]

StepCalls ==
    {c \in CaptureCalls :
        /\ c.order \in Orderings(ScanProjectStructure(c.source, {}).files)
        /\ c.detect_variables
        /\ c.template_name \in {NameA, <<"1">>}}

NextSteps ==
    \/ CaptureStart(StepCalls)
    \/ CaptureCopy
    \/ CaptureSave

SpecSteps == InitSteps /\ [][NextSteps]_vars

\* the statements of a capture, taken one after the other, leave the store and the
\* result that create_template_from_directory gives as one call
StepsMakeTheCall ==
    (last.op = "capture" /\ last.pc = "done") =>
        LET whole == CreateTemplateFromDirectory(arg.store, last.call, clock, linesep)
        IN  store = whole.store /\ last.result = whole.result

\* C24 (as claimed): within one capture the metadata is constructed and saved before
\* the first file is copied, so all through the copy phase the store entry has the
\* template.json of this capture.
C24_MetadataBeforeCopy ==
    (last.op = "capture" /\ last.pc = "copy") =>
        /\ last.call.template_name \in DOMAIN store
        /\ store[last.call.template_name].json = Save(last.metadata)

---------------------------------------------------------------------------
(* SpecPrompt: template use with its prompts, one typed line at a time     *)

\* the lines the user types
PromptInputs == {<<>>, <<"1">>, <<"1", "2">>, <<"-", "1">>, <<"a">>, <<"1", "a">>, <<"y">>, <<"n">>}

\* int(value) takes the text
ParsesAsInt(s) ==
    LET digits == IF s # <<>> /\ Head(s) = "-" THEN Tail(s) ELSE s
    IN  digits # <<>> /\ \A i \in 1..Len(digits) : digits[i] \in Digits

\* bool(value)
Bool(value) ==
    CASE value.k = "none" -> FALSE
      [] value.k = "bool" -> value.v = <<"1">>
      [] value.k = "int"  -> value.v # <<"0">>
      [] OTHER            -> value.v # <<>>

\* Prompt.ask(..., default=default) on a typed line: an empty line gives the default
PromptAsk(typed, default) == IF typed = <<>> THEN default ELSE StrVal(typed)

PromptAgain == [again |-> TRUE, result |-> Ok(None)]
PromptEnds(result) == [again |-> FALSE, result |-> result]

\* one round of prompt_user on a typed line: the value returned, the exception raised, or
\* the same prompt once more
PromptUser(var, typed) ==
    IF var.type = "boolean"
    THEN CASE typed = <<>>    -> PromptEnds(Ok(BoolVal(IF var.default # None
                                                       THEN Bool(var.default) ELSE FALSE)))
           [] typed = <<"y">> -> PromptEnds(Ok(BoolVal(TRUE)))
           [] typed = <<"n">> -> PromptEnds(Ok(BoolVal(FALSE)))
           [] OTHER           -> PromptAgain
    ELSE LET default_str == IF var.default # None THEN StrVal(Str(var.default)) ELSE None
             value == PromptAsk(typed, default_str)
         IN  IF var.type # "integer" THEN PromptEnds(Ok(value))
             ELSE IF value = None THEN PromptEnds(Raise("TypeError"))
             ELSE IF ParsesAsInt(value.v) THEN PromptEnds(Ok(IntVal(value.v)))
             ELSE PromptAgain

PromptBuiltins == {<<"project_name">>, <<"date">>, <<"year">>}

PromptVars ==
    { [key |-> n, var |-> TemplateVariable(n, ty, <<>>, TRUE, d)] :
        n \in {<<"db_host">>, <<"date">>}, ty \in {"string", "integer", "boolean"},
        d \in {None, StrVal(<<"x">>), IntVal(<<"1">>)} }

PromptPort ==
    { [key |-> <<"port">>, var |-> TemplateVariable(<<"port">>, "integer", <<>>, TRUE, d)] :
        d \in {None, IntVal(<<"2">>)} }

PromptDeclared == {<<e>> : e \in PromptPort} \cup {<<e, f>> : e \in PromptVars, f \in PromptPort}

\* the --var options, as parsed: always text
PromptSupplied ==
    { <<>>,
      <<[key |-> <<"port">>, val |-> StrVal(<<"1">>)]>>,
      <<[key |-> <<"db_host">>, val |-> StrVal(<<"a">>)]>> }

InitPrompt ==
    /\ store \in {ApplyStore(declared) : declared \in PromptDeclared}
    /\ dest \in {EmptyDest, DemoExists}
    /\ clock = Today
    /\ linesep = <<"LF">>
    /\ captured = {}
    /\ arg = [none |-> TRUE]
    /\ last = [op |-> "none"]

\* template use up to the prompting loop
UseStart(names, project_names, supplied) ==
    \E name \in names, project_name \in project_names, variables \in supplied,
       interactive \in BOOLEAN :
        LET got == GetTemplate(store, name, clock)
            c == [name |-> name, project_name |-> project_name, variables |-> variables,
                  interactive |-> interactive]
            state == [op |-> "use", call |-> c, variables |-> variables, pending |-> <<>>,
                      prompted |-> {}, typed |-> <<>>, pc |-> "done", result |-> Ok(None)]
        IN  /\ last.op = "none"
            /\ got.ok
            /\ last' = IF ProjectExists(dest, project_name) \/ got.val = None
                       THEN [state EXCEPT !.result = Raise("SystemExit")]
                       ELSE IF interactive \/ variables = <<>>
                       THEN [state EXCEPT !.pc = "loop",
                                          !.pending = got.val.metadata.variables]
                       ELSE [state EXCEPT !.pc = "apply"]
            /\ UNCHANGED <<store, dest, clock, linesep, captured, arg>>

\* one turn of the loop over the declared variables
UseLoop ==
    /\ last.op = "use" /\ last.pc = "loop"
    /\ last' = IF last.pending = <<>> THEN [last EXCEPT !.pc = "apply"]
               ELSE LET var_name == Head(last.pending).key
                    IN  IF var_name \in Keys(last.variables) \/ var_name \in PromptBuiltins
                        THEN [last EXCEPT !.pending = Tail(@)]
                        ELSE [last EXCEPT !.pc = "prompt", !.prompted = @ \cup {var_name}]
    /\ UNCHANGED <<store, dest, clock, linesep, captured, arg>>

\* the user types one line at the prompt of the variable
UsePrompt ==
    /\ last.op = "use" /\ last.pc = "prompt"
    /\ \E typed \in PromptInputs :
          LET var_name == Head(last.pending).key
              out == PromptUser(Head(last.pending).var, typed)
          IN  last' = IF out.again THEN [last EXCEPT !.typed = typed]
                      ELSE IF out.result.ok
                      THEN [last EXCEPT !.typed = typed, !.pc = "loop", !.pending = Tail(@),
                                        !.variables = SetItem(@, var_name, out.result.val)]
                      ELSE [last EXCEPT !.typed = typed, !.pc = "done",
                                        !.result = out.result]
    /\ UNCHANGED <<store, dest, clock, linesep, captured, arg>>

\* apply_template with the variables collected
UseApply ==
    /\ last.op = "use" /\ last.pc = "apply"
    /\ \E order \in Orderings(DOMAIN store[last.call.name].structure.files) :
          LET c == ApplyCall(last.call.name, last.call.project_name, last.variables, order)
              out == ApplyTemplate(store, dest, Load(store, last.call.name, clock).val, c,
                                   clock, linesep)
          IN  /\ dest' = out.dest
              /\ last' = [last EXCEPT !.pc = "done", !.result = out.result]
    /\ UNCHANGED <<store, clock, linesep, captured, arg>>

NextPrompt ==
    \/ UseStart({NameT}, {<<"demo">>}, PromptSupplied)
    \/ UseLoop
    \/ UsePrompt
    \/ UseApply

SpecPrompt == InitPrompt /\ [][NextPrompt]_vars

\* C25: template use never prompts for project_name, date, year or a variable given with
\* --var, and the prompt of an integer variable ends only with an integer as the value of
\* the variable: any other line typed leads to the same prompt once more
C25_PromptingLoop ==
    [][(last.op = "use" /\ last.pc = "prompt") =>
          LET var_name == Head(last.pending).key
              var == Head(last.pending).var
          IN  /\ var_name \notin PromptBuiltins \cup Keys(last.call.variables)
              /\ var.type = "integer" =>
                    \/ /\ last'.pc = "prompt"
                       /\ last'.pending = last.pending
                       /\ last'.variables = last.variables
                    \/ /\ last'.pc = "loop"
                       /\ AsDict(last'.variables)[var_name].k = "int"]_vars

\* the part of C25 on which variables are prompted for
PromptSkipsSuppliedAndBuiltins ==
    last.op = "use" => last.prompted \cap (PromptBuiltins \cup Keys(last.call.variables)) = {}

---------------------------------------------------------------------------
(* SpecEscape: apply with values that are paths, on stored paths that name *)
(* a variable                                                             *)

VarTxt == <<"{", "{", "a", "}", "}", ".txt">>
SrcVar == <<"src", "/", "{", "{", "a", "}", "}">>
XTxt   == <<"x", ".txt">>

EscapeFiles ==
    { [p \in paths |-> File(<<"a">>, TRUE)] : paths \in (SUBSET {VarTxt, SrcVar, XTxt}) \ {{}} }

EscapeStore(files) ==
    NameT :> TemplateDir(
        Save(TemplateMetadata(
                [version |-> TemplateVersion, name |-> NameT, description |-> <<>>,
                 author |-> <<>>, created_at |-> <<"0", "T", "0">>,
                 prozes_version |-> <<"1", ".", "0", ".", "0">>,
                 variables |-> <<[key |-> <<"a">>,
                                  var |-> TemplateVariable(<<"a">>, "string", <<>>, FALSE, None)]>>,
                 dependencies |-> EmptyDict,
                 variable_substitution |-> EmptyDict, file_patterns |-> EmptyDict], Today)),
        TRUE, files)

EscapeValues ==
    { <<"x">>, <<"x", "/", "b">>, <<"..", "/", "x">>, <<"/", "x">>,
      <<"..", "/", "demo", "/", "x">> }

EscapeMaps == {<<>>} \cup {<<[key |-> <<"a">>, val |-> StrVal(v)]>> : v \in EscapeValues}

InitEscape ==
    /\ store \in {EscapeStore(files) : files \in EscapeFiles}
    /\ dest = EmptyDest
    /\ clock = Today
    /\ linesep = <<"LF">>
    /\ captured = {}
    /\ arg = [none |-> TRUE]
    /\ last = [op |-> "none"]

NextEscape == Apply({NameT}, {<<"demo">>, <<"other">>}, EscapeMaps)

SpecEscape == InitEscape /\ [][NextEscape]_vars

RECURSIVE ResolveParts(_, _)
\* the components left after "." and ".." are resolved, from the working directory; not
\* inside when ".." leaves the working directory
ResolveParts(parts, stack) ==
    IF parts = <<>> THEN [inside |-> TRUE, at |-> stack]
    ELSE IF Head(parts) \in {<<>>, <<".">>} THEN ResolveParts(Tail(parts), stack)
    ELSE IF Head(parts) = <<"..">>
         THEN IF stack = <<>> THEN [inside |-> FALSE, at |-> <<>>]
              ELSE ResolveParts(Tail(parts), SubSeq(stack, 1, Len(stack) - 1))
    ELSE ResolveParts(Tail(parts), Append(stack, Head(parts)))

\* the path p, taken from the working directory, names something below project_path
LiesUnder(project_path, p) ==
    LET at == ResolveParts(SplitPath(p), <<>>)
    IN  /\ p # <<>> /\ p[1] # "/"
        /\ at.inside /\ Len(at.at) > 1 /\ at.at[1] = project_path

\* C26: every file an apply creates lies under destination_dir/project_name, whatever the
\* values of the variables are (path separators, "..", an absolute path)
C26_ApplyStaysInside ==
    [][last'.op = "apply" =>
          \A p \in (DOMAIN dest'.files) \ (DOMAIN dest.files) :
              LiesUnder(last'.call.project_name, p)]_vars

\* C27: a successful apply creates one file for each file of the stored structure: no
\* two stored paths end at the same destination path
C27_ApplyPreservesFileCount ==
    [][(last'.op = "apply" /\ last'.result.ok /\ dest' # dest) =>
          Cardinality((DOMAIN dest'.files) \ (DOMAIN dest.files))
              = Cardinality(DOMAIN store[last'.call.name].structure.files)]_vars

---------------------------------------------------------------------------
(* Apply and its validation errors, checked on SpecApply                   *)

\* the result is one of the two errors of apply's validation loop
FailedValidation(result) ==
    /\ ~result.ok
    /\ result.exc = "ValueError"
    /\ result.detail # <<>>
    /\ result.detail[1].kind # "Project directory already exists"

\* C28: an apply that fails because a required variable is missing or a resolved value has
\* the wrong type leaves the destination as it was: the project directory has not been
\* created and no file has been written
C28_ValidationAllOrNothing ==
    [][(last'.op = "apply" /\ FailedValidation(last'.result)) =>
          /\ dest' = dest
          /\ ~PathExists(dest', last'.call.project_name)]_vars

\* an apply failed on the type of a supplied value, on an empty destination
C28_Witness ==
    /\ last.op = "apply"
    /\ FailedValidation(last.result)
    /\ last.result.detail[1].kind # "Required variable is missing"
    /\ last.call.variables # <<>>
    /\ ~PathExists(dest, last.call.project_name)

---------------------------------------------------------------------------
(* SpecDeps: captures of projects with dependency files                    *)

Requirements == <<"requirements", ".txt">>
PipfileLock  == <<"Pipfile", "/", "x">>

\* what can be at each path: a dependency file the process can or cannot read, a
\* directory that has the name of a dependency file
DepsContents(p) ==
    IF p = Requirements THEN {File(<<"a">>, TRUE), File(<<"a">>, FALSE)}
    ELSE IF p = AppPy THEN {File(<<"a">>, TRUE), File(<<"{", "{", "b", "}", "}">>, TRUE)}
    ELSE {File(<<"a">>, TRUE)}

DepsTrees ==
    UNION { {t \in [present -> UNION {DepsContents(p) : p \in present}] :
                \A p \in present : t[p] \in DepsContents(p)} :
            present \in SUBSET {Requirements, AppPy, PipfileLock} }

DepsSources == {Source(<<<<"home">>, <<"proj">>>>, "dir", tree) : tree \in DepsTrees}

DepsCalls ==
    { c \in { CaptureCall(source, NameA, <<>>, <<>>, exclude, TRUE, order) :
                source \in DepsSources, exclude \in {{}, {Requirements}},
                order \in UNION {Orderings(DOMAIN t) : t \in DepsTrees} } :
        Len(c.order) = Cardinality(ScanProjectStructure(c.source, c.exclude_patterns).files)
        /\ SeqRange(c.order) = ScanProjectStructure(c.source, c.exclude_patterns).files }

InitDeps ==
    /\ store = EmptyDict
    /\ dest = EmptyDest
    /\ clock = Today
    /\ linesep = <<"LF">>
    /\ captured = {}
    /\ arg \in [call : DepsCalls]
    /\ last = [op |-> "none"]

NextDeps == last.op = "none" /\ Capture({arg.call})

SpecDeps == InitDeps /\ [][NextDeps]_vars

\* C29: for the template a capture returns, every entry of metadata.dependencies maps a
\* well-known file name to structure/<name>, and that path is a file of the template's
\* stored tree, also when an exclusion pattern or a copy failure kept the file out of it
C29_DependenciesAreStored ==
    (last.op = "capture" /\ last.result.ok) =>
        LET deps == last.result.val.metadata.dependencies
        IN  \A d \in DOMAIN deps :
                /\ d \in DepFiles
                /\ deps[d] = <<"structure", "/">> \o d
                /\ d \in DOMAIN store[last.call.template_name].structure.files

---------------------------------------------------------------------------
(* The store that captures and deletes leave, checked on Spec              *)

\* C30: in every store reached from the empty store by captures and deletes, list_all()
\* is in ascending order of name without duplicates, and every listed template has the
\* name of its metadata and of its directory, metadata that validate with no error, and
\* exists(name) holds for it
C30_StoreInvariant ==
    LET listed == ListCustomTemplates(store, clock)
    IN  /\ listed.ok
        /\ \A i, j \in 1..Len(listed.val) :
              i < j => StrLess(listed.val[i].name, listed.val[j].name)
        /\ \A i \in 1..Len(listed.val) :
              LET template == listed.val[i]
              IN  /\ template.name = template.metadata.name
                  /\ template.name \in DOMAIN store
                  /\ template.path = template.name
                  /\ Validate(template.metadata) = <<>>
                  /\ TemplateExists(store, template.name)

\* two templates are listed after a successful capture on the second day
C30_Witness ==
    /\ last.op = "capture"
    /\ last.result.ok
    /\ captured = {NameA, NameB}
    /\ Len(ListCustomTemplates(store, clock).val) = 2
    /\ clock = Tomorrow

=============================================================================
